---- MODULE Spec2Model ----
(***************************************************************************)
(* Approval pipeline of quarterly breakdowns and quarterly performance     *)
(* reports (plans/views.py, plans/models.py, plans/serializers.py).        *)
(*                                                                         *)
(* Decimal amounts are integers counted in thousandths (250.00 = 250000),  *)
(* so that quantize(Decimal('0.01')) is a real rounding step.  Texts are   *)
(* sequences of tokens (" " and "\n" are the whitespace tokens).           *)
(* Datetimes are tuples <<year, month, day, hour>>; a null datetime is     *)
(* <<>>; a null user or department or sector reference is 0.               *)
(*                                                                         *)
(* The stage fields of a record (submitted_by/_at, reviewed_by/_at,        *)
(* validated_by/_at, final_approved_by/_at) are written by the views and   *)
(* read by none of them; so are review_comment and variance_description of *)
(* a performance report.  The model keeps the write, not the column: what  *)
(* a request writes to these columns is part of its response (resp.stamp). *)
(* review_comment of a breakdown is read back by advisor_review and is     *)
(* kept in the record.                                                     *)
(*                                                                         *)
(* Requests are served one at a time: a request is served when no response *)
(* is pending (resp = NoResponse), and Deliver hands the response over.    *)
(* ConcurrentSpec alone runs a submit_to_strategic request statement by    *)
(* statement in a second worker (handoff), next to the requests of the     *)
(* first.                                                                  *)
(*                                                                         *)
(* The indicator groups (indicators/models.py, serializers.py, views.py)   *)
(* are the rows of groups, a function from pk to <department, sector,      *)
(* parent>; indicators holds the group links and the is_aggregatable flag  *)
(* of each indicator.  The pipeline runs have no group.                    *)
(***************************************************************************)
EXTENDS Integers, Sequences, FiniteSets, TLC

VARIABLES plans, bd, pf, windows, now, resp, handoff, groups, indicators, inflight

vars == <<plans, bd, pf, windows, now, resp, handoff, groups, indicators, inflight>>

-----------------------------------------------------------------------------
(* Bounds of the model                                                     *)

\* number of instants of Timeline the clock reaches
NInstants == 2
\* longest review_comment an advisor annotation may produce: one annotation
\* after the comment of a review takes four tokens
MaxCommentLen == 4

-----------------------------------------------------------------------------
(* users/models.py: roles and principals                                   *)

ADVISOR == "ADVISOR"
STATE_MINISTER == "STATE_MINISTER"
STRATEGIC_STAFF == "STRATEGIC_STAFF"
EXECUTIVE == "EXECUTIVE"
LEAD_EXECUTIVE_BODY == "LEAD_EXECUTIVE_BODY"
MINISTER_VIEW == "MINISTER_VIEW"

Roles ==
  {ADVISOR, STATE_MINISTER, STRATEGIC_STAFF, EXECUTIVE, LEAD_EXECUTIVE_BODY,
   MINISTER_VIEW}

\* The principals that issue requests: role, department, sector, superuser.
UserFixture ==
  << [role |-> LEAD_EXECUTIVE_BODY, department |-> 1, sector |-> 0, is_superuser |-> FALSE],
     [role |-> LEAD_EXECUTIVE_BODY, department |-> 2, sector |-> 0, is_superuser |-> FALSE],
     [role |-> STATE_MINISTER,      department |-> 0, sector |-> 1, is_superuser |-> FALSE],
     [role |-> STRATEGIC_STAFF,     department |-> 0, sector |-> 0, is_superuser |-> FALSE],
     [role |-> ADVISOR,             department |-> 0, sector |-> 0, is_superuser |-> TRUE],
     [role |-> EXECUTIVE,           department |-> 0, sector |-> 0, is_superuser |-> FALSE],
     [role |-> ADVISOR,             department |-> 0, sector |-> 1, is_superuser |-> FALSE],
     [role |-> MINISTER_VIEW,       department |-> 0, sector |-> 0, is_superuser |-> FALSE],
     [role |-> STATE_MINISTER,      department |-> 2, sector |-> 2, is_superuser |-> FALSE] >>

Users == 1..Len(UserFixture)

User(u) == UserFixture[u]

\* indicators: the sector a department belongs to
DeptSector(d) == IF d = 1 THEN 1 ELSE 2

-----------------------------------------------------------------------------
(* plans/models.py: statuses                                               *)

DRAFT == "DRAFT"
SUBMITTED == "SUBMITTED"
APPROVED == "APPROVED"
VALIDATED == "VALIDATED"
FINAL_APPROVED == "FINAL_APPROVED"
REJECTED == "REJECTED"

PlanStatus == {DRAFT, SUBMITTED, APPROVED, VALIDATED, FINAL_APPROVED, REJECTED}

PerformanceStatus == {DRAFT, SUBMITTED, APPROVED, VALIDATED, FINAL_APPROVED, REJECTED}

\* the statuses the views call "approved or beyond"
ApprovedOrAbove == {APPROVED, VALIDATED, FINAL_APPROVED}

-----------------------------------------------------------------------------
(* Datetimes                                                               *)

NullTime == <<>>

\* a < b on <<year, month, day, hour>>
Before(a, b) ==
  \/ a[1] < b[1]
  \/ a[1] = b[1] /\ a[2] < b[2]
  \/ a[1] = b[1] /\ a[2] = b[2] /\ a[3] < b[3]
  \/ a[1] = b[1] /\ a[2] = b[2] /\ a[3] = b[3] /\ a[4] < b[4]

AtOrBefore(a, b) == a = b \/ Before(a, b)

IsLeap(y) == (y % 4 = 0 /\ y % 100 # 0) \/ y % 400 = 0

DaysInMonth(y, m) ==
  IF m = 2 THEN (IF IsLeap(y) THEN 29 ELSE 28)
  ELSE IF m \in {4, 6, 9, 11} THEN 30 ELSE 31

RECURSIVE AddDays(_, _)
\* datetime + timedelta(days=n)
AddDays(t, n) ==
  IF n = 0 THEN t
  ELSE IF t[3] < DaysInMonth(t[1], t[2]) THEN AddDays(<<t[1], t[2], t[3] + 1, t[4]>>, n - 1)
  ELSE IF t[2] < 12 THEN AddDays(<<t[1], t[2] + 1, 1, t[4]>>, n - 1)
  ELSE AddDays(<<t[1] + 1, 1, 1, t[4]>>, n - 1)

\* The instants of the model.  The clock of the pipeline runs passes through
\* the first ones, in order; the others are the instants the window checks
\* are probed at (the ends of the default windows, one hour or one day off).
Timeline ==
  << <<2025, 6, 22, 0>>, <<2025, 7, 18, 0>>, <<2026, 6, 22, 0>>, <<2026, 6, 27, 0>>,
     <<2025, 1, 1, 0>>, <<2025, 12, 31, 23>>,
     <<2026, 6, 21, 23>>, <<2026, 6, 26, 23>>,
     <<2026, 7, 1, 0>>, <<2026, 7, 7, 0>>, <<2026, 7, 7, 23>>, <<2026, 7, 8, 0>>,
     <<2026, 7, 17, 0>>, <<2026, 7, 18, 0>>,
     <<2026, 10, 10, 0>>, <<2026, 10, 11, 0>>, <<2026, 10, 20, 0>>, <<2026, 10, 20, 12>>,
     <<2027, 1, 8, 0>>, <<2027, 1, 9, 0>>, <<2027, 1, 18, 0>>, <<2027, 1, 19, 0>>,
     <<2027, 4, 8, 0>>, <<2027, 4, 9, 0>>, <<2027, 4, 18, 0>>, <<2027, 4, 19, 0>>,
     <<2027, 6, 22, 0>>, <<2027, 6, 30, 23>> >>

-----------------------------------------------------------------------------
(* plans/models.py: SubmissionWindow rows and the window checks            *)

BREAKDOWN == "BREAKDOWN"

\* window_type_map of within_quarter_submission_window
WindowTypeOfQuarter(q) ==
  IF q = 1 THEN "PERFORMANCE_Q1"
  ELSE IF q = 2 THEN "PERFORMANCE_Q2"
  ELSE IF q = 3 THEN "PERFORMANCE_Q3"
  ELSE IF q = 4 THEN "PERFORMANCE_Q4"
  ELSE "None"

\* The override rows the administrator can install; the index is the pk.
\* year 0 is a null year ("all years").
WindowPool ==
  << [window_type |-> BREAKDOWN, year |-> 2025, always_open |-> TRUE,
      start |-> NullTime, end |-> NullTime, active |-> TRUE],
     [window_type |-> BREAKDOWN, year |-> 0, always_open |-> FALSE,
      start |-> <<2025, 1, 1, 0>>, end |-> <<2027, 4, 8, 0>>, active |-> TRUE],
     [window_type |-> BREAKDOWN, year |-> 2026, always_open |-> FALSE,
      start |-> <<2026, 1, 1, 0>>, end |-> <<2026, 2, 1, 0>>, active |-> FALSE],
     [window_type |-> BREAKDOWN, year |-> 2027, always_open |-> FALSE,
      start |-> <<2027, 1, 1, 0>>, end |-> NullTime, active |-> TRUE],
     [window_type |-> "PERFORMANCE_Q4", year |-> 2026, always_open |-> FALSE,
      start |-> <<2026, 7, 1, 0>>, end |-> <<2026, 7, 8, 0>>, active |-> TRUE] >>

\* the row the administrator installs and removes in the pipeline runs
WindowRowIds == {1}

\* the rows of the window runs
WindowProbeRowIds == DOMAIN WindowPool

Min(S) == CHOOSE x \in S : \A y \in S : x <= y

\* QuerySet.first() on an unordered queryset: the row of least pk, 0 if none
First(S) == IF S = {} THEN 0 ELSE Min(S)

\* _check_submission_window without the active=True filter
CheckSubmissionWindow_InactiveToo(rows, window_type, date, year) ==
  LET qs == {i \in rows : WindowPool[i].window_type = window_type}
      byYear == First({i \in qs : WindowPool[i].year = year})
      win == IF byYear # 0 THEN byYear ELSE First({i \in qs : WindowPool[i].year = 0})
  IN IF win = 0 THEN "None"
     ELSE IF WindowPool[win].always_open THEN "True"
     ELSE IF WindowPool[win].start # NullTime /\ WindowPool[win].end # NullTime
          THEN (IF AtOrBefore(WindowPool[win].start, date) /\ Before(date, WindowPool[win].end)
                THEN "True" ELSE "False")
     ELSE "None"

\* _check_submission_window: "True", "False", or "None" (no usable override)
CheckSubmissionWindow(rows, window_type, date, year) ==
  LET qs == {i \in rows : WindowPool[i].window_type = window_type /\ WindowPool[i].active}
      byYear == First({i \in qs : WindowPool[i].year = year})
      win == IF byYear # 0 THEN byYear ELSE First({i \in qs : WindowPool[i].year = 0})
  IN IF win = 0 THEN "None"
     ELSE IF WindowPool[win].always_open THEN "True"
     ELSE IF WindowPool[win].start # NullTime /\ WindowPool[win].end # NullTime
          THEN (IF AtOrBefore(WindowPool[win].start, date) /\ Before(date, WindowPool[win].end)
                THEN "True" ELSE "False")
     ELSE "None"

\* within_annual_breakdown_window with the end of the default included
WithinAnnualBreakdownWindow_ClosedEnd(rows, date) ==
  LET override == CheckSubmissionWindow(rows, BREAKDOWN, date, date[1])
      start == <<date[1], 6, 22, 0>>
      end == <<date[1], 6, 27, 0>>
  IN IF override = "True" THEN TRUE
     ELSE IF override = "False" THEN FALSE
     ELSE AtOrBefore(start, date) /\ AtOrBefore(date, end)

\* within_annual_breakdown_window
WithinAnnualBreakdownWindow(rows, date) ==
  LET override == CheckSubmissionWindow(rows, BREAKDOWN, date, date[1])
      start == <<date[1], 6, 22, 0>>
      end == <<date[1], 6, 27, 0>>
  IN IF override = "True" THEN TRUE
     ELSE IF override = "False" THEN FALSE
     ELSE AtOrBefore(start, date) /\ Before(date, end)

\* within_quarter_submission_window
WithinQuarterSubmissionWindow(rows, date, quarter) ==
  LET wt == WindowTypeOfQuarter(quarter)
      override == IF wt # "None" THEN CheckSubmissionWindow(rows, wt, date, date[1]) ELSE "None"
      fy_start_year == IF date[2] >= 7 THEN date[1] ELSE date[1] - 1
      start == IF quarter = 1 THEN <<fy_start_year, 7, 8, 0>>
               ELSE IF quarter = 2 THEN <<fy_start_year, 10, 11, 0>>
               ELSE IF quarter = 3 THEN <<fy_start_year + 1, 1, 9, 0>>
               ELSE <<fy_start_year + 1, 4, 9, 0>>
      end == IF quarter = 1 THEN <<fy_start_year, 10, 10, 0>>
             ELSE IF quarter = 2 THEN <<fy_start_year + 1, 1, 8, 0>>
             ELSE IF quarter = 3 THEN <<fy_start_year + 1, 4, 8, 0>>
             ELSE <<fy_start_year + 1, 7, 7, 0>>
      window_end == AddDays(end, 10)
  IN IF override = "True" THEN TRUE
     ELSE IF override = "False" THEN FALSE
     ELSE AtOrBefore(start, date) /\ AtOrBefore(date, window_end)

-----------------------------------------------------------------------------
(* Decimals and texts                                                      *)

\* Decimal.quantize(Decimal('0.01')), ROUND_HALF_EVEN, on thousandths
Quantize(x) ==
  LET r == x % 10
      f == x - r
  IN IF r < 5 THEN f
     ELSE IF r > 5 THEN f + 10
     ELSE IF (f \div 10) % 2 = 0 THEN f ELSE f + 10

IsSpace(c) == c \in {" ", "\n"}

RECURSIVE LStrip(_)
LStrip(s) == IF s # <<>> /\ IsSpace(Head(s)) THEN LStrip(Tail(s)) ELSE s

RECURSIVE RStrip(_)
RStrip(s) ==
  IF s # <<>> /\ IsSpace(s[Len(s)]) THEN RStrip(SubSeq(s, 1, Len(s) - 1)) ELSE s

\* str.strip()
Strip(s) == RStrip(LStrip(s))

-----------------------------------------------------------------------------
(* Request inputs                                                          *)

\* the annual plans: year, indicator and department of the indicator, and
\* the target; (year, indicator) is unique
PlanFixture ==
  << [year |-> 2025, indicator |-> 1, department |-> 1, target |-> 1000000],
     [year |-> 2025, indicator |-> 2, department |-> 1, target |-> 1000000],
     [year |-> 2026, indicator |-> 1, department |-> 1, target |-> 1000000],
     [year |-> 2025, indicator |-> 3, department |-> 2, target |-> 1000000] >>

\* the indicators the plans are made for
IndicatorIds == {PlanFixture[p].indicator : p \in DOMAIN PlanFixture}

\* the annual plan the pipeline runs work on
PlanIds == {1}

\* the annual plans of the hand-off runs: two of one year in one department,
\* one of another year, one of another department and sector
HandOffPlanIds == DOMAIN PlanFixture

\* a plan id that names no AnnualPlan
UnknownPlan == 9

PlanDept(p) == PlanFixture[p].department

PlanSector(p) == DeptSector(PlanFixture[p].department)

PlanYear(p) == PlanFixture[p].year

\* the quarters performance reports are filed for
PerfQuarters == {4}

PerfKeys == PlanIds \X PerfQuarters

\* a key the request does not carry
NoQ == <<>>
NoStatus == "Absent"
NoText == <<"<absent>">>
NoValue == -1

\* q1..q4 of a create or update request
QuarterInputs ==
  {<<250000, 250000, 250000, 250000>>, <<250000, 250000, 250000, 249990>>}

\* value of a performance create or update request
ValueInputs == {50000, 250000}

\* comment / variance_description of reject, advisor_review and submit
TextInputs == {<<>>, <<" ">>, <<"x">>}

\* comment of advisor_review: also one with whitespace around the text
AnnotationInputs == TextInputs \cup {<<" ", "x", " ">>}

\* comment of approve
ApproveComments == {<<>>, <<"x">>}

\* status of a create or update request
StatusInputs == {APPROVED}

\* the bodies of breakdown create requests
BreakdownCreateData ==
  [q : QuarterInputs, status : {NoStatus} \cup StatusInputs,
   review_comment : {NoText}]

\* the bodies of breakdown update requests
BreakdownUpdateData ==
  [q : {NoQ} \cup QuarterInputs, status : {NoStatus} \cup StatusInputs,
   review_comment : {NoText}]
  \cup {[q |-> NoQ, status |-> NoStatus, review_comment |-> <<"x">>]}

\* the bodies of performance create requests
PerformanceCreateData ==
  [value : ValueInputs, status : {NoStatus} \cup StatusInputs,
   review_comment : {NoText}]

\* the bodies of performance update requests
PerformanceUpdateData ==
  [value : {NoValue} \cup ValueInputs, status : {NoStatus} \cup StatusInputs,
   review_comment : {NoText}]
  \cup {[value |-> NoValue, status |-> NoStatus, review_comment |-> <<"x">>]}

\* mode of submit_to_strategic, after strip().lower()
Modes == {"", "plans", "performances", "other"}

-----------------------------------------------------------------------------
(* plans/models.py: the stored records                                     *)

\* QuarterlyBreakdown(plan=p) with the field defaults of the model
NewBreakdown ==
  [q1 |-> 0, q2 |-> 0, q3 |-> 0, q4 |-> 0, status |-> DRAFT,
   review_comment |-> <<>>, sent_to_strategic |-> FALSE]

\* QuarterlyPerformance(plan=p, quarter=q) with the field defaults of the model
NewPerformance ==
  [value |-> 0, status |-> DRAFT, sent_to_strategic |-> FALSE]

\* QuarterlyBreakdown.total
Total(b) == b.q1 + b.q2 + b.q3 + b.q4

\* the quarter target q_target of QuarterlyPerformanceViewSet.submit
QuarterTarget(b, quarter) ==
  IF quarter = 1 THEN b.q1
  ELSE IF quarter = 2 THEN b.q2
  ELSE IF quarter = 3 THEN b.q3
  ELSE b.q4

-----------------------------------------------------------------------------
(* Requests and responses                                                  *)

OK == "ok"
FORBIDDEN == "forbidden"
NOT_FOUND == "not_found"
INVALID_STATUS == "invalid_status"
WINDOW_CLOSED == "window_closed"

\* timezone.now()
TimezoneNow == Timeline[now]

\* no stage field and no unread column is written
NoStamp ==
  [field |-> "none", by |-> 0, at |-> NullTime,
   review_comment |-> NoText, variance_description |-> NoText]

\* <stage>_by = u and <stage>_at = timezone.now()
Stamp(stage, u) == [NoStamp EXCEPT !.field = stage, !.by = u, !.at = TimezoneNow]

NoResponse ==
  [op |-> "none", user |-> 0, key |-> <<>>, arg |-> <<>>, code |-> OK, stamp |-> NoStamp]

\* no submit_to_strategic request is half-way through its statements
NoHandOff ==
  [phase |-> "none", user |-> 0, mode |-> "", breakdown_ids |-> {},
   performance_ids |-> {}]

\* no IndicatorGroup row
NoGroups == <<>>

\* Indicator.groups and Indicator.is_aggregatable with no link and the
\* default of the flag
UnlinkedIndicators ==
  [i \in IndicatorIds |-> [groups |-> {}, is_aggregatable |-> TRUE]]

\* no reviewer action of the second worker is between its read and its save
NoInFlight ==
  [op |-> "none", user |-> 0, key |-> <<>>, comment |-> <<>>, obj |-> <<>>,
   code |-> ""]

\* no response is pending: the next request can be served
Idle == resp.op = "none"

Request(op, u, key, arg) == [op |-> op, user |-> u, key |-> key, arg |-> arg]

\* the response of the request just served
Reply(req, code, stamp) ==
  resp' = [op |-> req.op, user |-> req.user, key |-> req.key, arg |-> req.arg,
           code |-> code, stamp |-> stamp]

\* an error response: nothing is written
Fail(req, code) ==
  /\ Reply(req, code, NoStamp)
  /\ UNCHANGED <<plans, bd, pf, windows, now, handoff, groups, indicators, inflight>>

-----------------------------------------------------------------------------
(* get_queryset: the records a principal can address                       *)

\* the department and sector filters of get_queryset, role by role
InDepartmentSectorScope(u, p) ==
  LET usr == User(u)
      role == usr.role
  IN IF role \in {STRATEGIC_STAFF, EXECUTIVE, LEAD_EXECUTIVE_BODY}
     THEN usr.department # 0 => PlanDept(p) = usr.department
     ELSE IF role = STATE_MINISTER
          THEN IF usr.department # 0 THEN PlanDept(p) = usr.department
               ELSE IF usr.sector # 0 THEN PlanSector(p) = usr.sector
               ELSE TRUE
     ELSE IF role = ADVISOR
          THEN usr.sector # 0 => PlanSector(p) = usr.sector
     ELSE TRUE

\* the filters shared by both get_queryset methods: superusers see all,
\* STRATEGIC_STAFF only what was sent to them, MINISTER_VIEW only approved
\* or higher records
InScope(u, p, sent, status) ==
  IF User(u).is_superuser THEN TRUE
  ELSE IF User(u).role = STRATEGIC_STAFF
       THEN sent /\ InDepartmentSectorScope(u, p)
  ELSE IF User(u).role = MINISTER_VIEW
       THEN status \in ApprovedOrAbove
  ELSE InDepartmentSectorScope(u, p)

\* get_queryset without the sent_to_strategic filter of STRATEGIC_STAFF
BreakdownQueryset_Unfiltered(u) ==
  {p \in DOMAIN bd :
     IF User(u).is_superuser THEN TRUE
     ELSE IF User(u).role = MINISTER_VIEW THEN bd[p].status \in ApprovedOrAbove
     ELSE InDepartmentSectorScope(u, p)}

\* QuarterlyBreakdownViewSet.get_queryset
BreakdownQueryset(u) ==
  {p \in DOMAIN bd : InScope(u, p, bd[p].sent_to_strategic, bd[p].status)}

\* get_queryset without the sent_to_strategic filter of STRATEGIC_STAFF
PerformanceQueryset_Unfiltered(u) ==
  {k \in DOMAIN pf :
     IF User(u).is_superuser THEN TRUE
     ELSE IF User(u).role = MINISTER_VIEW THEN pf[k].status \in ApprovedOrAbove
     ELSE InDepartmentSectorScope(u, k[1])}

\* QuarterlyPerformanceViewSet.get_queryset
PerformanceQueryset(u) ==
  {k \in DOMAIN pf : InScope(u, k[1], pf[k].sent_to_strategic, pf[k].status)}

-----------------------------------------------------------------------------
(* QuarterlyBreakdownViewSet                                               *)

\* _allow_plan_edit
AllowPlanEdit(u) == User(u).role = LEAD_EXECUTIVE_BODY

\* ModelSerializer.save: the writable fields q1..q4, status, review_comment
ApplyBreakdownData(b, data) ==
  [b EXCEPT
     !.q1 = IF data.q = NoQ THEN @ ELSE data.q[1],
     !.q2 = IF data.q = NoQ THEN @ ELSE data.q[2],
     !.q3 = IF data.q = NoQ THEN @ ELSE data.q[3],
     !.q4 = IF data.q = NoQ THEN @ ELSE data.q[4],
     !.status = IF data.status = NoStatus THEN @ ELSE data.status,
     !.review_comment = IF data.review_comment = NoText THEN @ ELSE data.review_comment]

\* create with QuarterlyBreakdown.clean() enforced on the new record
BreakdownCreate_SumChecked(u, p, data) ==
  LET req == Request("breakdown_create", u, <<p>>, data)
  IN IF ~AllowPlanEdit(u) THEN Fail(req, FORBIDDEN)
     ELSE IF p \notin DOMAIN plans THEN Fail(req, "invalid_plan")
     ELSE IF User(u).department # 0 /\ PlanDept(p) # User(u).department
          THEN Fail(req, FORBIDDEN)
     ELSE IF ~WithinAnnualBreakdownWindow(windows, TimezoneNow)
          THEN Fail(req, WINDOW_CLOSED)
     ELSE IF p \in DOMAIN bd THEN Fail(req, "not_unique")
     ELSE IF Total(ApplyBreakdownData(NewBreakdown, data)) # plans[p]
          THEN Fail(req, "sum_mismatch")
     ELSE /\ bd' = (p :> ApplyBreakdownData(NewBreakdown, data)) @@ bd
          /\ Reply(req, OK, NoStamp)
          /\ UNCHANGED <<plans, pf, windows, now, handoff, groups, indicators, inflight>>

\* POST /api/breakdowns/
BreakdownCreate(u, p, data) ==
  LET req == Request("breakdown_create", u, <<p>>, data)
  IN IF ~AllowPlanEdit(u) THEN Fail(req, FORBIDDEN)
     ELSE IF p \notin DOMAIN plans THEN Fail(req, "invalid_plan")
     ELSE IF User(u).department # 0 /\ PlanDept(p) # User(u).department
          THEN Fail(req, FORBIDDEN)
     ELSE IF ~WithinAnnualBreakdownWindow(windows, TimezoneNow)
          THEN Fail(req, WINDOW_CLOSED)
     ELSE IF p \in DOMAIN bd THEN Fail(req, "not_unique")
     ELSE /\ bd' = (p :> ApplyBreakdownData(NewBreakdown, data)) @@ bd
          /\ Reply(req, OK, NoStamp)
          /\ UNCHANGED <<plans, pf, windows, now, handoff, groups, indicators, inflight>>

\* PUT/PATCH /api/breakdowns/{id}/
BreakdownUpdate(u, p, data) ==
  LET req == Request("breakdown_update", u, <<p>>, data)
  IN IF ~AllowPlanEdit(u) THEN Fail(req, FORBIDDEN)
     ELSE IF p \notin BreakdownQueryset(u) THEN Fail(req, NOT_FOUND)
     ELSE IF User(u).department # 0 /\ PlanDept(p) # User(u).department
          THEN Fail(req, FORBIDDEN)
     ELSE IF ~WithinAnnualBreakdownWindow(windows, TimezoneNow)
          THEN Fail(req, WINDOW_CLOSED)
     ELSE /\ bd' = [bd EXCEPT ![p] = ApplyBreakdownData(@, data)]
          /\ Reply(req, OK, NoStamp)
          /\ UNCHANGED <<plans, pf, windows, now, handoff, groups, indicators, inflight>>

\* GET /api/breakdowns/{id}/ (ModelViewSet.retrieve, not overridden)
BreakdownRetrieve(u, p) ==
  LET req == Request("breakdown_retrieve", u, <<p>>, <<>>)
  IN IF p \notin BreakdownQueryset(u) THEN Fail(req, NOT_FOUND)
     ELSE /\ Reply(req, OK, NoStamp)
          /\ UNCHANGED <<plans, bd, pf, windows, now, handoff, groups, indicators, inflight>>

\* DELETE /api/breakdowns/{id}/ (ModelViewSet.destroy, not overridden)
BreakdownDestroy(u, p) ==
  LET req == Request("breakdown_destroy", u, <<p>>, <<>>)
  IN IF p \notin BreakdownQueryset(u) THEN Fail(req, NOT_FOUND)
     ELSE /\ bd' = [x \in DOMAIN bd \ {p} |-> bd[x]]
          /\ Reply(req, OK, NoStamp)
          /\ UNCHANGED <<plans, pf, windows, now, handoff, groups, indicators, inflight>>

\* submit without the comparison of the quarter sum with the target
BreakdownSubmit_NoSumCheck(u, p) ==
  LET req == Request("breakdown_submit", u, <<p>>, <<>>)
  IN IF p \notin BreakdownQueryset(u) THEN Fail(req, NOT_FOUND)
     ELSE IF User(u).role # LEAD_EXECUTIVE_BODY THEN Fail(req, FORBIDDEN)
     ELSE IF ~WithinAnnualBreakdownWindow(windows, TimezoneNow)
          THEN Fail(req, WINDOW_CLOSED)
     ELSE IF bd[p].status \notin {DRAFT, REJECTED} THEN Fail(req, INVALID_STATUS)
     ELSE /\ bd' = [bd EXCEPT ![p].status = SUBMITTED]
          /\ Reply(req, OK, Stamp("submitted", u))
          /\ UNCHANGED <<plans, pf, windows, now, handoff, groups, indicators, inflight>>

\* POST /api/breakdowns/{id}/submit/
BreakdownSubmit(u, p) ==
  LET req == Request("breakdown_submit", u, <<p>>, <<>>)
  IN IF p \notin BreakdownQueryset(u) THEN Fail(req, NOT_FOUND)
     ELSE IF User(u).role # LEAD_EXECUTIVE_BODY THEN Fail(req, FORBIDDEN)
     ELSE IF ~WithinAnnualBreakdownWindow(windows, TimezoneNow)
          THEN Fail(req, WINDOW_CLOSED)
     ELSE IF bd[p].status \notin {DRAFT, REJECTED} THEN Fail(req, INVALID_STATUS)
     ELSE IF Quantize(Total(bd[p])) # Quantize(plans[p])
          THEN Fail(req, "sum_mismatch")
     ELSE /\ bd' = [bd EXCEPT ![p].status = SUBMITTED]
          /\ Reply(req, OK, Stamp("submitted", u))
          /\ UNCHANGED <<plans, pf, windows, now, handoff, groups, indicators, inflight>>

\* POST /api/breakdowns/{id}/approve/
BreakdownApprove(u, p, comment) ==
  LET req == Request("breakdown_approve", u, <<p>>, comment)
  IN IF p \notin BreakdownQueryset(u) THEN Fail(req, NOT_FOUND)
     ELSE IF User(u).role # STATE_MINISTER THEN Fail(req, FORBIDDEN)
     ELSE IF bd[p].status # SUBMITTED THEN Fail(req, INVALID_STATUS)
     ELSE /\ bd' = [bd EXCEPT ![p].status = APPROVED,
                              ![p].review_comment = comment]
          /\ Reply(req, OK, Stamp("reviewed", u))
          /\ UNCHANGED <<plans, pf, windows, now, handoff, groups, indicators, inflight>>

\* validate without the test of the source status
BreakdownValidate_AnyStatus(u, p) ==
  LET req == Request("breakdown_validate", u, <<p>>, <<>>)
  IN IF p \notin BreakdownQueryset(u) THEN Fail(req, NOT_FOUND)
     ELSE IF User(u).role # STRATEGIC_STAFF THEN Fail(req, FORBIDDEN)
     ELSE /\ bd' = [bd EXCEPT ![p].status = VALIDATED]
          /\ Reply(req, OK, Stamp("validated", u))
          /\ UNCHANGED <<plans, pf, windows, now, handoff, groups, indicators, inflight>>

\* POST /api/breakdowns/{id}/validate/
BreakdownValidate(u, p) ==
  LET req == Request("breakdown_validate", u, <<p>>, <<>>)
  IN IF p \notin BreakdownQueryset(u) THEN Fail(req, NOT_FOUND)
     ELSE IF User(u).role # STRATEGIC_STAFF THEN Fail(req, FORBIDDEN)
     ELSE IF bd[p].status # APPROVED THEN Fail(req, INVALID_STATUS)
     ELSE /\ bd' = [bd EXCEPT ![p].status = VALIDATED]
          /\ Reply(req, OK, Stamp("validated", u))
          /\ UNCHANGED <<plans, pf, windows, now, handoff, groups, indicators, inflight>>

\* POST /api/breakdowns/{id}/final_approve/
BreakdownFinalApprove(u, p) ==
  LET req == Request("breakdown_final_approve", u, <<p>>, <<>>)
  IN IF p \notin BreakdownQueryset(u) THEN Fail(req, NOT_FOUND)
     ELSE IF User(u).role # EXECUTIVE THEN Fail(req, FORBIDDEN)
     ELSE IF bd[p].status # VALIDATED THEN Fail(req, INVALID_STATUS)
     ELSE /\ bd' = [bd EXCEPT ![p].status = FINAL_APPROVED]
          /\ Reply(req, OK, Stamp("final_approved", u))
          /\ UNCHANGED <<plans, pf, windows, now, handoff, groups, indicators, inflight>>

\* reject without the mandatory note of STRATEGIC_STAFF
BreakdownReject_NoteOptional(u, p, comment) ==
  LET req == Request("breakdown_reject", u, <<p>>, comment)
  IN IF p \notin BreakdownQueryset(u) THEN Fail(req, NOT_FOUND)
     ELSE IF User(u).role \notin {STATE_MINISTER, STRATEGIC_STAFF, EXECUTIVE}
          THEN Fail(req, FORBIDDEN)
     ELSE IF bd[p].status \notin {SUBMITTED, APPROVED, VALIDATED}
          THEN Fail(req, INVALID_STATUS)
     ELSE /\ bd' = [bd EXCEPT ![p].status = REJECTED,
                              ![p].review_comment = Strip(comment)]
          /\ Reply(req, OK, Stamp("reviewed", u))
          /\ UNCHANGED <<plans, pf, windows, now, handoff, groups, indicators, inflight>>

\* POST /api/breakdowns/{id}/reject/
BreakdownReject(u, p, comment) ==
  LET req == Request("breakdown_reject", u, <<p>>, comment)
  IN IF p \notin BreakdownQueryset(u) THEN Fail(req, NOT_FOUND)
     ELSE IF User(u).role \notin {STATE_MINISTER, STRATEGIC_STAFF, EXECUTIVE}
          THEN Fail(req, FORBIDDEN)
     ELSE IF User(u).role = STRATEGIC_STAFF /\ Strip(comment) = <<>>
          THEN Fail(req, "comment_required")
     ELSE IF bd[p].status \notin {SUBMITTED, APPROVED, VALIDATED}
          THEN Fail(req, INVALID_STATUS)
     ELSE /\ bd' = [bd EXCEPT ![p].status = REJECTED,
                              ![p].review_comment = Strip(comment)]
          /\ Reply(req, OK, Stamp("reviewed", u))
          /\ UNCHANGED <<plans, pf, windows, now, handoff, groups, indicators, inflight>>

\* advisor_review with the note replacing the comment instead of following it
BreakdownAdvisorReview_Overwrite(u, p, comment) ==
  LET req == Request("breakdown_advisor_review", u, <<p>>, comment)
      text == <<"Advisor: ">> \o Strip(comment)
  IN IF p \notin BreakdownQueryset(u) THEN Fail(req, NOT_FOUND)
     ELSE IF User(u).role # ADVISOR THEN Fail(req, FORBIDDEN)
     ELSE IF Strip(comment) = <<>> THEN Fail(req, "comment_required")
     ELSE /\ Len(text) <= MaxCommentLen
          /\ bd' = [bd EXCEPT ![p].review_comment = text]
          /\ Reply(req, OK, NoStamp)
          /\ UNCHANGED <<plans, pf, windows, now, handoff, groups, indicators, inflight>>

\* POST /api/breakdowns/{id}/advisor_review/
BreakdownAdvisorReview(u, p, comment) ==
  LET req == Request("breakdown_advisor_review", u, <<p>>, comment)
      new_note == <<"Advisor: ">> \o Strip(comment)
      text == IF bd[p].review_comment # <<>>
              THEN bd[p].review_comment \o <<"\n">> \o new_note
              ELSE new_note
  IN IF p \notin BreakdownQueryset(u) THEN Fail(req, NOT_FOUND)
     ELSE IF User(u).role # ADVISOR THEN Fail(req, FORBIDDEN)
     ELSE IF Strip(comment) = <<>> THEN Fail(req, "comment_required")
     ELSE /\ Len(text) <= MaxCommentLen
          /\ bd' = [bd EXCEPT ![p].review_comment = text]
          /\ Reply(req, OK, NoStamp)
          /\ UNCHANGED <<plans, pf, windows, now, handoff, groups, indicators, inflight>>

-----------------------------------------------------------------------------
(* QuarterlyPerformanceViewSet                                             *)

\* _allow_perf_edit without the department test
AllowPerfEdit_AnyDepartment(u, p) ==
  /\ p \in DOMAIN bd
  /\ bd[p].status \in ApprovedOrAbove
  /\ User(u).role \in {LEAD_EXECUTIVE_BODY, STATE_MINISTER}

\* _allow_perf_edit
AllowPerfEdit(u, p) ==
  /\ p \in DOMAIN bd
  /\ bd[p].status \in ApprovedOrAbove
  /\ User(u).role \in {LEAD_EXECUTIVE_BODY, STATE_MINISTER}
  /\ ~(User(u).department # 0 /\ PlanDept(p) # User(u).department)

\* ModelSerializer.save: the writable fields value and status
\* (review_comment goes to the response stamp)
ApplyPerformanceData(r, data) ==
  [r EXCEPT
     !.value = IF data.value = NoValue THEN @ ELSE data.value,
     !.status = IF data.status = NoStatus THEN @ ELSE data.status]

\* POST /api/performances/
PerformanceCreate(u, k, data) ==
  LET req == Request("performance_create", u, k, data)
  IN IF k[1] \notin DOMAIN plans THEN Fail(req, "invalid_plan")
     ELSE IF ~AllowPerfEdit(u, k[1]) THEN Fail(req, FORBIDDEN)
     ELSE IF ~WithinQuarterSubmissionWindow(windows, TimezoneNow, k[2])
          THEN Fail(req, WINDOW_CLOSED)
     ELSE IF k \in DOMAIN pf THEN Fail(req, "not_unique")
     ELSE /\ pf' = (k :> ApplyPerformanceData(NewPerformance, data)) @@ pf
          /\ Reply(req, OK, [NoStamp EXCEPT !.review_comment = data.review_comment])
          /\ UNCHANGED <<plans, bd, windows, now, handoff, groups, indicators, inflight>>

\* PUT/PATCH /api/performances/{id}/
PerformanceUpdate(u, k, data) ==
  LET req == Request("performance_update", u, k, data)
  IN IF k \notin PerformanceQueryset(u) THEN Fail(req, NOT_FOUND)
     ELSE IF pf[k].status \notin {DRAFT, REJECTED, SUBMITTED}
          THEN Fail(req, INVALID_STATUS)
     ELSE IF pf[k].status = SUBMITTED /\ User(u).role # STATE_MINISTER
          THEN Fail(req, FORBIDDEN)
     ELSE IF ~AllowPerfEdit(u, k[1]) THEN Fail(req, FORBIDDEN)
     ELSE IF ~WithinQuarterSubmissionWindow(windows, TimezoneNow, k[2])
          THEN Fail(req, WINDOW_CLOSED)
     ELSE /\ pf' = [pf EXCEPT ![k] = ApplyPerformanceData(@, data)]
          /\ Reply(req, OK, [NoStamp EXCEPT !.review_comment = data.review_comment])
          /\ UNCHANGED <<plans, bd, windows, now, handoff, groups, indicators, inflight>>

\* GET /api/performances/{id}/ (ModelViewSet.retrieve, not overridden)
PerformanceRetrieve(u, k) ==
  LET req == Request("performance_retrieve", u, k, <<>>)
  IN IF k \notin PerformanceQueryset(u) THEN Fail(req, NOT_FOUND)
     ELSE /\ Reply(req, OK, NoStamp)
          /\ UNCHANGED <<plans, bd, pf, windows, now, handoff, groups, indicators, inflight>>

\* DELETE /api/performances/{id}/ (ModelViewSet.destroy, not overridden)
PerformanceDestroy(u, k) ==
  LET req == Request("performance_destroy", u, k, <<>>)
  IN IF k \notin PerformanceQueryset(u) THEN Fail(req, NOT_FOUND)
     ELSE /\ pf' = [x \in DOMAIN pf \ {k} |-> pf[x]]
          /\ Reply(req, OK, NoStamp)
          /\ UNCHANGED <<plans, bd, windows, now, handoff, groups, indicators, inflight>>

\* the test with the two ends 84 and 110 taken as outside
NeedsVariance_EndsOutside(value, q_target) ==
  /\ q_target > 0
  /\ (value * 100 <= 84 * q_target \/ value * 100 >= 110 * q_target)

\* the 84%..110% test of submit: perf_pct < 84 or perf_pct > 110
NeedsVariance(value, q_target) ==
  /\ q_target > 0
  /\ (value * 100 < 84 * q_target \/ value * 100 > 110 * q_target)

\* submit without the test of the parent breakdown's status
PerformanceSubmit_AnyParentStatus(u, k, variance_description) ==
  LET req == Request("performance_submit", u, k, variance_description)
  IN IF k \notin PerformanceQueryset(u) THEN Fail(req, NOT_FOUND)
     ELSE IF User(u).role # LEAD_EXECUTIVE_BODY THEN Fail(req, FORBIDDEN)
     ELSE IF pf[k].status \notin {DRAFT, REJECTED} THEN Fail(req, INVALID_STATUS)
     ELSE IF ~WithinQuarterSubmissionWindow(windows, TimezoneNow, k[2])
          THEN Fail(req, WINDOW_CLOSED)
     ELSE IF k[1] \notin DOMAIN bd THEN Fail(req, "breakdown_not_approved")
     ELSE IF NeedsVariance(pf[k].value, QuarterTarget(bd[k[1]], k[2]))
             /\ Strip(variance_description) = <<>>
          THEN Fail(req, "variance_required")
     ELSE /\ pf' = [pf EXCEPT ![k].status = SUBMITTED]
          /\ Reply(req, OK,
                   [Stamp("submitted", u) EXCEPT
                      !.variance_description =
                         IF NeedsVariance(pf[k].value, QuarterTarget(bd[k[1]], k[2]))
                         THEN Strip(variance_description) ELSE NoText])
          /\ UNCHANGED <<plans, bd, windows, now, handoff, groups, indicators, inflight>>

\* POST /api/performances/{id}/submit/
PerformanceSubmit(u, k, variance_description) ==
  LET req == Request("performance_submit", u, k, variance_description)
  IN IF k \notin PerformanceQueryset(u) THEN Fail(req, NOT_FOUND)
     ELSE IF User(u).role # LEAD_EXECUTIVE_BODY THEN Fail(req, FORBIDDEN)
     ELSE IF pf[k].status \notin {DRAFT, REJECTED} THEN Fail(req, INVALID_STATUS)
     ELSE IF ~WithinQuarterSubmissionWindow(windows, TimezoneNow, k[2])
          THEN Fail(req, WINDOW_CLOSED)
     ELSE IF ~(k[1] \in DOMAIN bd /\ bd[k[1]].status \in ApprovedOrAbove)
          THEN Fail(req, "breakdown_not_approved")
     ELSE IF NeedsVariance(pf[k].value, QuarterTarget(bd[k[1]], k[2]))
             /\ Strip(variance_description) = <<>>
          THEN Fail(req, "variance_required")
     ELSE /\ pf' = [pf EXCEPT ![k].status = SUBMITTED]
          /\ Reply(req, OK,
                   [Stamp("submitted", u) EXCEPT
                      !.variance_description =
                         IF NeedsVariance(pf[k].value, QuarterTarget(bd[k[1]], k[2]))
                         THEN Strip(variance_description) ELSE NoText])
          /\ UNCHANGED <<plans, bd, windows, now, handoff, groups, indicators, inflight>>

\* POST /api/performances/{id}/approve/
PerformanceApprove(u, k, comment) ==
  LET req == Request("performance_approve", u, k, comment)
  IN IF k \notin PerformanceQueryset(u) THEN Fail(req, NOT_FOUND)
     ELSE IF User(u).role # STATE_MINISTER THEN Fail(req, FORBIDDEN)
     ELSE IF pf[k].status # SUBMITTED THEN Fail(req, INVALID_STATUS)
     ELSE /\ pf' = [pf EXCEPT ![k].status = APPROVED]
          /\ Reply(req, OK, [Stamp("reviewed", u) EXCEPT !.review_comment = comment])
          /\ UNCHANGED <<plans, bd, windows, now, handoff, groups, indicators, inflight>>

\* POST /api/performances/{id}/validate/
PerformanceValidate(u, k) ==
  LET req == Request("performance_validate", u, k, <<>>)
  IN IF k \notin PerformanceQueryset(u) THEN Fail(req, NOT_FOUND)
     ELSE IF User(u).role # STRATEGIC_STAFF THEN Fail(req, FORBIDDEN)
     ELSE IF pf[k].status # APPROVED THEN Fail(req, INVALID_STATUS)
     ELSE /\ pf' = [pf EXCEPT ![k].status = VALIDATED]
          /\ Reply(req, OK, Stamp("validated", u))
          /\ UNCHANGED <<plans, bd, windows, now, handoff, groups, indicators, inflight>>

\* POST /api/performances/{id}/final_approve/
PerformanceFinalApprove(u, k) ==
  LET req == Request("performance_final_approve", u, k, <<>>)
  IN IF k \notin PerformanceQueryset(u) THEN Fail(req, NOT_FOUND)
     ELSE IF User(u).role # EXECUTIVE THEN Fail(req, FORBIDDEN)
     ELSE IF pf[k].status # VALIDATED THEN Fail(req, INVALID_STATUS)
     ELSE /\ pf' = [pf EXCEPT ![k].status = FINAL_APPROVED]
          /\ Reply(req, OK, Stamp("final_approved", u))
          /\ UNCHANGED <<plans, bd, windows, now, handoff, groups, indicators, inflight>>

\* POST /api/performances/{id}/reject/
PerformanceReject(u, k, comment) ==
  LET req == Request("performance_reject", u, k, comment)
  IN IF k \notin PerformanceQueryset(u) THEN Fail(req, NOT_FOUND)
     ELSE IF User(u).role \notin {STATE_MINISTER, STRATEGIC_STAFF, EXECUTIVE}
          THEN Fail(req, FORBIDDEN)
     ELSE IF User(u).role = STRATEGIC_STAFF /\ Strip(comment) = <<>>
          THEN Fail(req, "comment_required")
     ELSE IF pf[k].status \notin {SUBMITTED, APPROVED, VALIDATED}
          THEN Fail(req, INVALID_STATUS)
     ELSE /\ pf' = [pf EXCEPT ![k].status = REJECTED]
          /\ Reply(req, OK,
                   [Stamp("reviewed", u) EXCEPT !.review_comment = Strip(comment)])
          /\ UNCHANGED <<plans, bd, windows, now, handoff, groups, indicators, inflight>>

-----------------------------------------------------------------------------
(* submit_to_strategic                                                     *)

BlockingStatuses == {DRAFT, SUBMITTED, REJECTED}

\* the hand-off without the department and sector filters
InMinisterScope_Unfiltered(u, p) == TRUE

\* scope_breakdowns / scope_perfs: the department, else the sector, of the user
InMinisterScope(u, p) ==
  IF User(u).department # 0 THEN PlanDept(p) = User(u).department
  ELSE IF User(u).sector # 0 THEN PlanSector(p) = User(u).sector
  ELSE TRUE

\* mode in ('', 'both', 'plans')
HandlesPlans(mode) == mode \in {"", "both", "plans"}

\* mode in ('', 'both', 'performances')
HandlesPerformances(mode) == mode \in {"", "both", "performances"}

\* the years of the listed records that exist, for the kinds the mode handles
TouchedYears(mode, breakdown_ids, performance_ids) ==
  (IF HandlesPlans(mode)
   THEN {PlanYear(p) : p \in breakdown_ids \cap DOMAIN bd} ELSE {})
  \cup
  (IF HandlesPerformances(mode)
   THEN {PlanYear(k[1]) : k \in performance_ids \cap DOMAIN pf} ELSE {})

\* the pending check looking at breakdowns only
Blocked_PlansOnly(u, mode, years) ==
  \E y \in years :
    /\ HandlesPlans(mode)
    /\ \E p \in DOMAIN bd : /\ InMinisterScope(u, p)
                            /\ PlanYear(p) = y
                            /\ bd[p].status \in BlockingStatuses

\* block_plans or block_perfs for some year of the request
Blocked(u, mode, years) ==
  \E y \in years :
    \/ /\ HandlesPlans(mode)
       /\ \E p \in DOMAIN bd : /\ InMinisterScope(u, p)
                               /\ PlanYear(p) = y
                               /\ bd[p].status \in BlockingStatuses
    \/ /\ HandlesPerformances(mode)
       /\ \E k \in DOMAIN pf : /\ InMinisterScope(u, k[1])
                               /\ PlanYear(k[1]) = y
                               /\ pf[k].status \in BlockingStatuses

\* the hand-off flagging the listed breakdowns before the pending check
SubmitToStrategic_FlagsFirst(u, mode, breakdown_ids, performance_ids) ==
  LET req == Request("submit_to_strategic", u, <<>>,
                     [mode |-> mode, breakdown_ids |-> breakdown_ids,
                      performance_ids |-> performance_ids])
      years == TouchedYears(mode, breakdown_ids, performance_ids)
      flagged == [p \in DOMAIN bd |->
                    IF /\ HandlesPlans(mode)
                       /\ p \in breakdown_ids
                       /\ InMinisterScope(u, p)
                       /\ bd[p].status = APPROVED
                    THEN [bd[p] EXCEPT !.sent_to_strategic = TRUE]
                    ELSE bd[p]]
  IN IF User(u).role # STATE_MINISTER THEN Fail(req, FORBIDDEN)
     ELSE IF Blocked(u, mode, years)
          THEN /\ bd' = flagged
               /\ Reply(req, "blocked", NoStamp)
               /\ UNCHANGED <<plans, pf, windows, now, handoff, groups, indicators, inflight>>
     ELSE /\ bd' = flagged
          /\ pf' = [k \in DOMAIN pf |->
                      IF /\ HandlesPerformances(mode)
                         /\ k \in performance_ids
                         /\ InMinisterScope(u, k[1])
                         /\ pf[k].status = APPROVED
                      THEN [pf[k] EXCEPT !.sent_to_strategic = TRUE]
                      ELSE pf[k]]
          /\ Reply(req, OK, NoStamp)
          /\ UNCHANGED <<plans, windows, now, handoff, groups, indicators, inflight>>

\* POST /api/reviews/submit-to-strategic/
SubmitToStrategic(u, mode, breakdown_ids, performance_ids) ==
  LET req == Request("submit_to_strategic", u, <<>>,
                     [mode |-> mode, breakdown_ids |-> breakdown_ids,
                      performance_ids |-> performance_ids])
      years == TouchedYears(mode, breakdown_ids, performance_ids)
  IN IF User(u).role # STATE_MINISTER THEN Fail(req, FORBIDDEN)
     ELSE IF Blocked(u, mode, years) THEN Fail(req, "blocked")
     ELSE /\ bd' = [p \in DOMAIN bd |->
                      IF /\ HandlesPlans(mode)
                         /\ p \in breakdown_ids
                         /\ InMinisterScope(u, p)
                         /\ bd[p].status = APPROVED
                      THEN [bd[p] EXCEPT !.sent_to_strategic = TRUE]
                      ELSE bd[p]]
          /\ pf' = [k \in DOMAIN pf |->
                      IF /\ HandlesPerformances(mode)
                         /\ k \in performance_ids
                         /\ InMinisterScope(u, k[1])
                         /\ pf[k].status = APPROVED
                      THEN [pf[k] EXCEPT !.sent_to_strategic = TRUE]
                      ELSE pf[k]]
          /\ Reply(req, OK, NoStamp)
          /\ UNCHANGED <<plans, windows, now, handoff, groups, indicators, inflight>>

-----------------------------------------------------------------------------
(* SubmissionWindowViewSet (SuperuserOnlyPermission)                       *)

\* POST /api/submission-windows/ : row i of WindowPool is stored
SubmissionWindowCreate(u, i) ==
  LET req == Request("window_create", u, <<i>>, <<>>)
  IN IF ~User(u).is_superuser THEN Fail(req, FORBIDDEN)
     ELSE /\ i \notin windows
          /\ windows' = windows \cup {i}
          /\ Reply(req, OK, NoStamp)
          /\ UNCHANGED <<plans, bd, pf, now, handoff, groups, indicators, inflight>>

\* DELETE /api/submission-windows/{id}/
SubmissionWindowDestroy(u, i) ==
  LET req == Request("window_destroy", u, <<i>>, <<>>)
  IN IF ~User(u).is_superuser THEN Fail(req, FORBIDDEN)
     ELSE IF i \notin windows THEN Fail(req, NOT_FOUND)
     ELSE /\ windows' = windows \ {i}
          /\ Reply(req, OK, NoStamp)
          /\ UNCHANGED <<plans, bd, pf, now, handoff, groups, indicators, inflight>>

-----------------------------------------------------------------------------
(* The system                                                              *)

\* the wall clock moves to the next instant of Timeline
Tick ==
  /\ Idle
  /\ now < NInstants
  /\ now' = now + 1
  /\ UNCHANGED <<plans, bd, pf, windows, resp, handoff, groups, indicators, inflight>>

\* the pending response is handed to the client
Deliver ==
  /\ ~Idle
  /\ resp' = NoResponse
  /\ UNCHANGED <<plans, bd, pf, windows, now, handoff, groups, indicators, inflight>>

Init ==
  /\ plans = [p \in PlanIds |-> PlanFixture[p].target]
  /\ bd = <<>>
  /\ pf = <<>>
  /\ windows = {}
  /\ now = 1
  /\ resp = NoResponse
  /\ handoff = NoHandOff
  /\ groups = NoGroups
  /\ indicators = UnlinkedIndicators
  /\ inflight = NoInFlight

BreakdownCreateStep ==
  Idle /\ \E u \in Users, p \in PlanIds \cup {UnknownPlan},
             data \in BreakdownCreateData :
            BreakdownCreate(u, p, data)

BreakdownUpdateStep ==
  Idle /\ \E u \in Users, p \in PlanIds, data \in BreakdownUpdateData :
            BreakdownUpdate(u, p, data)

BreakdownRetrieveStep ==
  Idle /\ \E u \in Users, p \in PlanIds : BreakdownRetrieve(u, p)

BreakdownDestroyStep ==
  Idle /\ \E u \in Users, p \in PlanIds : BreakdownDestroy(u, p)

BreakdownSubmitStep ==
  Idle /\ \E u \in Users, p \in PlanIds : BreakdownSubmit(u, p)

BreakdownApproveStep ==
  Idle /\ \E u \in Users, p \in PlanIds, comment \in ApproveComments :
            BreakdownApprove(u, p, comment)

BreakdownValidateStep ==
  Idle /\ \E u \in Users, p \in PlanIds : BreakdownValidate(u, p)

BreakdownFinalApproveStep ==
  Idle /\ \E u \in Users, p \in PlanIds : BreakdownFinalApprove(u, p)

BreakdownRejectStep ==
  Idle /\ \E u \in Users, p \in PlanIds, comment \in TextInputs :
            BreakdownReject(u, p, comment)

BreakdownAdvisorReviewStep ==
  Idle /\ \E u \in Users, p \in PlanIds, comment \in AnnotationInputs :
            BreakdownAdvisorReview(u, p, comment)

PerformanceCreateStep ==
  Idle /\ \E u \in Users, k \in (PlanIds \cup {UnknownPlan}) \X PerfQuarters,
             data \in PerformanceCreateData :
            PerformanceCreate(u, k, data)

PerformanceUpdateStep ==
  Idle /\ \E u \in Users, k \in PerfKeys, data \in PerformanceUpdateData :
            PerformanceUpdate(u, k, data)

PerformanceRetrieveStep ==
  Idle /\ \E u \in Users, k \in PerfKeys : PerformanceRetrieve(u, k)

PerformanceDestroyStep ==
  Idle /\ \E u \in Users, k \in PerfKeys : PerformanceDestroy(u, k)

PerformanceSubmitStep ==
  Idle /\ \E u \in Users, k \in PerfKeys, variance_description \in TextInputs :
            PerformanceSubmit(u, k, variance_description)

PerformanceApproveStep ==
  Idle /\ \E u \in Users, k \in PerfKeys, comment \in ApproveComments :
            PerformanceApprove(u, k, comment)

PerformanceValidateStep ==
  Idle /\ \E u \in Users, k \in PerfKeys : PerformanceValidate(u, k)

PerformanceFinalApproveStep ==
  Idle /\ \E u \in Users, k \in PerfKeys : PerformanceFinalApprove(u, k)

PerformanceRejectStep ==
  Idle /\ \E u \in Users, k \in PerfKeys, comment \in TextInputs :
            PerformanceReject(u, k, comment)

SubmitToStrategicStep ==
  Idle /\ \E u \in Users, mode \in Modes,
             breakdown_ids \in SUBSET PlanIds, performance_ids \in SUBSET PerfKeys :
            SubmitToStrategic(u, mode, breakdown_ids, performance_ids)

SubmissionWindowCreateStep ==
  Idle /\ \E u \in Users, i \in WindowRowIds : SubmissionWindowCreate(u, i)

SubmissionWindowDestroyStep ==
  Idle /\ \E u \in Users, i \in WindowRowIds : SubmissionWindowDestroy(u, i)

Next ==
  \/ BreakdownCreateStep
  \/ BreakdownUpdateStep
  \/ BreakdownRetrieveStep
  \/ BreakdownDestroyStep
  \/ BreakdownSubmitStep
  \/ BreakdownApproveStep
  \/ BreakdownValidateStep
  \/ BreakdownFinalApproveStep
  \/ BreakdownRejectStep
  \/ BreakdownAdvisorReviewStep
  \/ PerformanceCreateStep
  \/ PerformanceUpdateStep
  \/ PerformanceRetrieveStep
  \/ PerformanceDestroyStep
  \/ PerformanceSubmitStep
  \/ PerformanceApproveStep
  \/ PerformanceValidateStep
  \/ PerformanceFinalApproveStep
  \/ PerformanceRejectStep
  \/ SubmitToStrategicStep
  \/ SubmissionWindowCreateStep
  \/ SubmissionWindowDestroyStep
  \/ Tick
  \/ Deliver

Spec == Init /\ [][Next]_vars

-----------------------------------------------------------------------------
(* submit_to_strategic over several plans, on its own                      *)

\* mode of submit_to_strategic in the hand-off runs
HandOffModes == Modes \cup {"both"}

\* the statuses each breakdown starts the hand-off runs with
HandOffBreakdownStatuses ==
  << PlanStatus, {DRAFT, APPROVED, VALIDATED}, {DRAFT, APPROVED}, {DRAFT, APPROVED} >>

\* the performance reports of the hand-off runs: one of plan 1 and one of the
\* plan of the other department
HandOffPerfKeys == {<<1, 4>>, <<4, 4>>}

\* the statuses each performance report starts the hand-off runs with
HandOffPerformanceStatuses ==
  (<<1, 4>> :> {DRAFT, APPROVED, VALIDATED}) @@ (<<4, 4>> :> {APPROVED})

\* every plan has a breakdown, in one of its statuses, none handed over yet
HandOffInit ==
  /\ plans = [p \in HandOffPlanIds |-> PlanFixture[p].target]
  /\ \E st \in [HandOffPlanIds -> PlanStatus] :
       /\ \A p \in HandOffPlanIds : st[p] \in HandOffBreakdownStatuses[p]
       /\ bd = [p \in HandOffPlanIds |->
                  [NewBreakdown EXCEPT !.q1 = 250000, !.q2 = 250000, !.q3 = 250000,
                                       !.q4 = 250000, !.status = st[p]]]
  /\ \E st \in [HandOffPerfKeys -> PerformanceStatus] :
       /\ \A k \in HandOffPerfKeys : st[k] \in HandOffPerformanceStatuses[k]
       /\ pf = [k \in HandOffPerfKeys |->
                  [NewPerformance EXCEPT !.value = 250000, !.status = st[k]]]
  /\ windows = {}
  /\ now = 1
  /\ resp = NoResponse
  /\ handoff = NoHandOff
  /\ groups = NoGroups
  /\ indicators = UnlinkedIndicators
  /\ inflight = NoInFlight

HandOffStep ==
  Idle /\ \E u \in Users, mode \in HandOffModes,
             breakdown_ids \in SUBSET HandOffPlanIds,
             performance_ids \in SUBSET HandOffPerfKeys :
            SubmitToStrategic(u, mode, breakdown_ids, performance_ids)

HandOffNext ==
  \/ HandOffStep
  \/ Deliver

HandOffSpec == HandOffInit /\ [][HandOffNext]_vars

-----------------------------------------------------------------------------
(* submit_to_strategic in a second worker: no transaction.atomic, so every *)
(* query commits on its own and other requests are served in between       *)

\* the role gate and the pending check (the exists() queries)
HandOffCheck(u, mode, breakdown_ids, performance_ids) ==
  LET years == TouchedYears(mode, breakdown_ids, performance_ids)
      call == [NoHandOff EXCEPT !.user = u, !.mode = mode,
                                !.breakdown_ids = breakdown_ids,
                                !.performance_ids = performance_ids]
  IN /\ handoff.phase = "none"
     /\ handoff' = [call EXCEPT !.phase =
                      IF User(u).role # STATE_MINISTER THEN FORBIDDEN
                      ELSE IF Blocked(u, mode, years) THEN "blocked"
                      ELSE "checked"]
     /\ UNCHANGED <<plans, bd, pf, windows, now, resp, groups, indicators, inflight>>

\* bqs.update(sent_to_strategic=True)
HandOffFlagBreakdowns ==
  /\ handoff.phase = "checked"
  /\ bd' = [p \in DOMAIN bd |->
              IF /\ HandlesPlans(handoff.mode)
                 /\ p \in handoff.breakdown_ids
                 /\ InMinisterScope(handoff.user, p)
                 /\ bd[p].status = APPROVED
              THEN [bd[p] EXCEPT !.sent_to_strategic = TRUE]
              ELSE bd[p]]
  /\ handoff' = [handoff EXCEPT !.phase = "plans_flagged"]
  /\ UNCHANGED <<plans, pf, windows, now, resp, groups, indicators, inflight>>

\* pqs.update(sent_to_strategic=True)
HandOffFlagPerformances ==
  /\ handoff.phase = "plans_flagged"
  /\ pf' = [k \in DOMAIN pf |->
              IF /\ HandlesPerformances(handoff.mode)
                 /\ k \in handoff.performance_ids
                 /\ InMinisterScope(handoff.user, k[1])
                 /\ pf[k].status = APPROVED
              THEN [pf[k] EXCEPT !.sent_to_strategic = TRUE]
              ELSE pf[k]]
  /\ handoff' = [handoff EXCEPT !.phase = OK]
  /\ UNCHANGED <<plans, bd, windows, now, resp, groups, indicators, inflight>>

\* the response of the request is returned
HandOffReturn ==
  /\ handoff.phase \in {OK, "blocked", FORBIDDEN}
  /\ handoff' = NoHandOff
  /\ UNCHANGED <<plans, bd, pf, windows, now, resp, groups, indicators, inflight>>

HandOffCheckStep ==
  \E u \in Users, mode \in HandOffModes,
     breakdown_ids \in SUBSET PlanIds, performance_ids \in SUBSET PerfKeys :
    HandOffCheck(u, mode, breakdown_ids, performance_ids)

\* a breakdown and a performance report that passed the first review
ConcurrentInit ==
  /\ plans = [p \in PlanIds |-> PlanFixture[p].target]
  /\ \E s \in {APPROVED, VALIDATED} :
       bd = [p \in PlanIds |->
               [NewBreakdown EXCEPT !.q1 = 250000, !.q2 = 250000, !.q3 = 250000,
                                    !.q4 = 250000, !.status = s]]
  /\ \E s \in {SUBMITTED, APPROVED} :
       pf = [k \in PerfKeys |-> [NewPerformance EXCEPT !.value = 250000, !.status = s]]
  /\ windows = {}
  /\ now = 1
  /\ resp = NoResponse
  /\ handoff = NoHandOff
  /\ groups = NoGroups
  /\ indicators = UnlinkedIndicators
  /\ inflight = NoInFlight

ConcurrentNext ==
  \/ HandOffCheckStep
  \/ HandOffFlagBreakdowns
  \/ HandOffFlagPerformances
  \/ HandOffReturn
  \/ BreakdownRejectStep
  \/ PerformanceApproveStep
  \/ PerformanceRejectStep
  \/ Deliver

ConcurrentSpec == ConcurrentInit /\ [][ConcurrentNext]_vars

-----------------------------------------------------------------------------
(* The window checks, on their own: any rows, any instant                  *)

\* GET /api/submission-windows/status/ ; arg carries the body of the response
SubmissionWindowStatus(u) ==
  LET body == [year |-> TimezoneNow[1],
               is_breakdown_window_open |->
                 WithinAnnualBreakdownWindow(windows, TimezoneNow),
               performance_windows |->
                 [q \in 1..4 |-> WithinQuarterSubmissionWindow(windows, TimezoneNow, q)]]
  IN /\ Reply(Request("window_status", u, <<>>, body), OK, NoStamp)
     /\ UNCHANGED <<plans, bd, pf, windows, now, handoff, groups, indicators, inflight>>

SubmissionWindowStatusStep ==
  Idle /\ \E u \in Users : SubmissionWindowStatus(u)

\* a balanced breakdown, DRAFT or APPROVED, and a DRAFT report of quarter 4;
\* any set of override rows, any instant of Timeline
WindowInit ==
  /\ plans = [p \in PlanIds |-> PlanFixture[p].target]
  /\ \E s \in {DRAFT, APPROVED} :
       bd = [p \in PlanIds |->
               [NewBreakdown EXCEPT !.q1 = 250000, !.q2 = 250000, !.q3 = 250000,
                                    !.q4 = 250000, !.status = s]]
  /\ pf = [k \in PerfKeys |-> [NewPerformance EXCEPT !.value = 250000]]
  /\ windows \in SUBSET WindowProbeRowIds
  /\ now \in DOMAIN Timeline
  /\ resp = NoResponse
  /\ handoff = NoHandOff
  /\ groups = NoGroups
  /\ indicators = UnlinkedIndicators
  /\ inflight = NoInFlight

WindowNext ==
  \/ SubmissionWindowStatusStep
  \/ BreakdownSubmitStep
  \/ PerformanceSubmitStep
  \/ Deliver

WindowSpec == WindowInit /\ [][WindowNext]_vars

-----------------------------------------------------------------------------
(* The 84%..110% test of QuarterlyPerformanceViewSet.submit, on its own    *)

\* q1..q4 of the approved parent breakdown: quarter 4 targets 100.00 and 0
VarianceBreakdowns ==
  {<<300000, 300000, 300000, 100000>>, <<400000, 300000, 300000, 0>>}

\* value of the report: 0, 50.00, 83.99, 84.00, 100.00, 110.00, 110.01
VarianceValues == {0, 50000, 83990, 84000, 100000, 110000, 110010}

\* a report of quarter 4, DRAFT or REJECTED, under a parent breakdown that
\* passed the first review; any instant, any override rows
VarianceInit ==
  /\ plans = [p \in PlanIds |-> PlanFixture[p].target]
  /\ \E q \in VarianceBreakdowns, s \in ApprovedOrAbove :
       bd = [p \in PlanIds |->
               [NewBreakdown EXCEPT !.q1 = q[1], !.q2 = q[2], !.q3 = q[3],
                                    !.q4 = q[4], !.status = s]]
  /\ \E v \in VarianceValues, s \in {DRAFT, REJECTED} :
       pf = [k \in PerfKeys |-> [NewPerformance EXCEPT !.value = v, !.status = s]]
  /\ windows \in SUBSET WindowRowIds
  /\ now \in 1..NInstants
  /\ resp = NoResponse
  /\ handoff = NoHandOff
  /\ groups = NoGroups
  /\ indicators = UnlinkedIndicators
  /\ inflight = NoInFlight

VarianceNext ==
  \/ PerformanceSubmitStep
  \/ Deliver

VarianceSpec == VarianceInit /\ [][VarianceNext]_vars

-----------------------------------------------------------------------------
(* indicators/models.py: the roll-up of targets, quarter values and        *)
(* achieved values over the indicator groups                               *)

\* pks of IndicatorGroup rows
GroupIds == 1..3

\* the orders in which children.all(), an unordered queryset, can come back
GroupOrders ==
  {o \in [1..Cardinality(GroupIds) -> GroupIds] :
     \A i, j \in DOMAIN o : o[i] = o[j] => i = j}

\* Sum() over the rows S of the column f; "or 0" for no row
RECURSIVE SumOf(_, _)
SumOf(f, S) ==
  IF S = {} THEN 0
  ELSE LET x == CHOOSE y \in S : TRUE
       IN f[x] + SumOf(f, S \ {x})

\* self.indicators with the is_aggregatable filter left out
DirectIndicators_Unflagged(g) ==
  {i \in DOMAIN indicators : g \in indicators[i].groups}

\* direct_indicators = self.indicators.filter(is_aggregatable=True)
DirectIndicators(g) ==
  {i \in DOMAIN indicators : g \in indicators[i].groups /\ indicators[i].is_aggregatable}

\* self.children with no row: the direct indicators alone are summed
IsChild_Never(h, g) == FALSE

\* h is in self.children.all() of g
IsChild(h, g) == h \in DOMAIN groups /\ groups[h].parent = g

\* the AnnualPlan rows of the direct indicators in the year
DirectPlans(g, year) ==
  {p \in DOMAIN plans :
     PlanFixture[p].indicator \in DirectIndicators(g) /\ PlanYear(p) = year}

\* the QuarterlyPerformance rows of get_performance_aggregate, with the
\* status filter of the dashboards
DirectPerformances_ApprovedOnly(g, year, quarter) ==
  {k \in DOMAIN pf :
     /\ PlanFixture[k[1]].indicator \in DirectIndicators(g)
     /\ PlanYear(k[1]) = year
     /\ k[2] = quarter
     /\ pf[k].status \in ApprovedOrAbove}

\* the QuarterlyPerformance rows of get_performance_aggregate
DirectPerformances(g, year, quarter) ==
  {k \in DOMAIN pf :
     /\ PlanFixture[k[1]].indicator \in DirectIndicators(g)
     /\ PlanYear(k[1]) = year
     /\ k[2] = quarter}

RECURSIVE GetAnnualTargetAggregate(_, _, _)
RECURSIVE AnnualOfChildren(_, _, _, _)
\* IndicatorGroup.get_annual_target_aggregate; order is the order of the
\* child groups
GetAnnualTargetAggregate(g, year, order) ==
  SumOf(plans, DirectPlans(g, year)) + AnnualOfChildren(g, year, order, 1)

\* for child_group in child_groups: total += ...
AnnualOfChildren(g, year, order, i) ==
  IF i > Len(order) THEN 0
  ELSE (IF IsChild(order[i], g) THEN GetAnnualTargetAggregate(order[i], year, order)
        ELSE 0)
       + AnnualOfChildren(g, year, order, i + 1)

\* the QuarterlyBreakdown rows of the direct indicators in the year
DirectBreakdowns(g, year) ==
  {p \in DOMAIN bd :
     PlanFixture[p].indicator \in DirectIndicators(g) /\ PlanYear(p) = year}

\* the column q1, q2, q3 or q4 of the breakdowns
QuarterColumn(n) ==
  [p \in DOMAIN bd |-> IF n = 1 THEN bd[p].q1 ELSE IF n = 2 THEN bd[p].q2
                       ELSE IF n = 3 THEN bd[p].q3 ELSE bd[p].q4]

RECURSIVE QuarterAggregate(_, _, _, _)
RECURSIVE QuarterOfChildren(_, _, _, _, _)
\* result['qn'] of get_quarterly_breakdown_aggregate: Sum('qn') of the
\* direct rows, plus the same of every child group
QuarterAggregate(g, year, order, n) ==
  SumOf(QuarterColumn(n), DirectBreakdowns(g, year))
    + QuarterOfChildren(g, year, order, n, 1)

\* for child_group in child_groups: result['qn'] += child_breakdown['qn']
QuarterOfChildren(g, year, order, n, i) ==
  IF i > Len(order) THEN 0
  ELSE (IF IsChild(order[i], g) THEN QuarterAggregate(order[i], year, order, n)
        ELSE 0)
       + QuarterOfChildren(g, year, order, n, i + 1)

\* IndicatorGroup.get_quarterly_breakdown_aggregate
GetQuarterlyBreakdownAggregate(g, year, order) ==
  [q1 |-> QuarterAggregate(g, year, order, 1),
   q2 |-> QuarterAggregate(g, year, order, 2),
   q3 |-> QuarterAggregate(g, year, order, 3),
   q4 |-> QuarterAggregate(g, year, order, 4)]

RECURSIVE GetPerformanceAggregate(_, _, _, _)
RECURSIVE PerformanceOfChildren(_, _, _, _, _)
\* IndicatorGroup.get_performance_aggregate
GetPerformanceAggregate(g, year, quarter, order) ==
  SumOf([k \in DOMAIN pf |-> pf[k].value], DirectPerformances(g, year, quarter))
    + PerformanceOfChildren(g, year, quarter, order, 1)

\* for child_group in child_groups: total += ...
PerformanceOfChildren(g, year, quarter, order, i) ==
  IF i > Len(order) THEN 0
  ELSE (IF IsChild(order[i], g)
        THEN GetPerformanceAggregate(order[i], year, quarter, order)
        ELSE 0)
       + PerformanceOfChildren(g, year, quarter, order, i + 1)

\* IndicatorGroupViewSet.get_queryset (no department or sector parameter)
GroupQueryset(u) ==
  LET usr == User(u)
      OfSector(g, s) ==
        \/ groups[g].department # 0 /\ DeptSector(groups[g].department) = s
        \/ groups[g].sector = s
  IN {g \in DOMAIN groups :
        IF usr.is_superuser THEN TRUE
        ELSE IF usr.role = STATE_MINISTER
             THEN usr.sector # 0 => OfSector(g, usr.sector)
        ELSE IF usr.role = ADVISOR
             THEN IF usr.department # 0 THEN groups[g].department = usr.department
                  ELSE usr.sector # 0 => OfSector(g, usr.sector)
        ELSE TRUE}

\* GET /api/indicator-groups/{id}/?include_aggregates=1&year=..&quarter=.. ;
\* arg carries the request parameters and the aggregates of the response
GroupRetrieve(u, g, year, quarter, order) ==
  LET params == [year |-> year, quarter |-> quarter]
      body == [year |-> year, quarter |-> quarter,
               annual_target_aggregate |-> GetAnnualTargetAggregate(g, year, order),
               quarterly_breakdown_aggregate |->
                 GetQuarterlyBreakdownAggregate(g, year, order),
               performance_aggregate |->
                 GetPerformanceAggregate(g, year, quarter, order)]
  IN IF g \notin GroupQueryset(u)
     THEN /\ Reply(Request("group_retrieve", u, <<g>>, params), NOT_FOUND, NoStamp)
          /\ UNCHANGED <<plans, bd, pf, windows, now, handoff, groups, indicators, inflight>>
     ELSE /\ Reply(Request("group_retrieve", u, <<g>>, body), OK, NoStamp)
          /\ UNCHANGED <<plans, bd, pf, windows, now, handoff, groups, indicators, inflight>>

\* PUT /api/annual-plans/{id}/ with a new target (SuperuserWritePermission)
AnnualPlanUpdate(u, p, target) ==
  LET req == Request("plan_update", u, <<p>>, target)
  IN IF ~User(u).is_superuser THEN Fail(req, FORBIDDEN)
     ELSE IF p \notin DOMAIN plans THEN Fail(req, NOT_FOUND)
     ELSE /\ plans' = [plans EXCEPT ![p] = target]
          /\ Reply(req, OK, NoStamp)
          /\ UNCHANGED <<bd, pf, windows, now, handoff, groups, indicators, inflight>>

\* the years and the new target of the aggregate runs
AggregateYears == {2025, 2026}
TargetInputs == {500000}

\* the principals of the aggregate runs: the creator and the three
\* reviewers, the superuser, and the ministers of the two sectors as readers
AggregateWriters == {1, 3, 4, 6}
AggregateReaders == {3, 9}
AggregateAdmins == {5}

GroupRetrieveStep ==
  Idle /\ \E u \in AggregateReaders, g \in GroupIds, year \in AggregateYears,
             quarter \in PerfQuarters, order \in GroupOrders :
            GroupRetrieve(u, g, year, quarter, order)

AnnualPlanUpdateStep ==
  Idle /\ \E u \in AggregateAdmins \cup {1}, p \in {1, 2}, target \in TargetInputs :
            AnnualPlanUpdate(u, p, target)

\* updates of the quarter values and of the value alone
QuarterValuesUpdateStep ==
  Idle /\ \E u \in {1}, p \in PlanIds, q \in QuarterInputs :
            BreakdownUpdate(u, p, [q |-> q, status |-> NoStatus, review_comment |-> NoText])

ValueUpdateStep ==
  Idle /\ \E u \in {1}, k \in PerfKeys, value \in ValueInputs :
            PerformanceUpdate(u, k, [value |-> value, status |-> NoStatus,
                                     review_comment |-> NoText])

\* the transitions of the report of plan 1
ReportSubmitStep ==
  Idle /\ \E u \in AggregateWriters, k \in PerfKeys : PerformanceSubmit(u, k, <<"x">>)

ReportApproveStep ==
  Idle /\ \E u \in AggregateWriters, k \in PerfKeys : PerformanceApprove(u, k, <<>>)

ReportValidateStep ==
  Idle /\ \E u \in AggregateWriters, k \in PerfKeys : PerformanceValidate(u, k)

ReportFinalApproveStep ==
  Idle /\ \E u \in AggregateWriters, k \in PerfKeys : PerformanceFinalApprove(u, k)

ReportRejectStep ==
  Idle /\ \E u \in AggregateWriters, k \in PerfKeys : PerformanceReject(u, k, <<"x">>)

\* a root with two child groups, or a chain of three groups
GroupTrees ==
  {[g \in GroupIds |->
      [department |-> IF g = 3 THEN 0 ELSE 1,
       sector |-> IF g = 3 THEN 2 ELSE 0,
       parent |-> IF g = 1 THEN 0 ELSE IF g = 2 THEN 1 ELSE third]] :
     third \in {1, 2}}

\* the links of the three indicators to the groups and their flags
IndicatorLinks ==
  {[i \in IndicatorIds |->
      [groups |-> IF i = 1 THEN a ELSE IF i = 2 THEN b ELSE {3},
       is_aggregatable |-> IF i = 1 THEN fa ELSE IF i = 2 THEN fb ELSE TRUE]] :
     a \in {{1}, {2}, {1, 2}}, b \in {{2}, {3}}, fa \in BOOLEAN, fb \in BOOLEAN}

\* plans, breakdowns and reports of all four plans, with values that tell
\* the rows apart in a sum; the report of plan 1 is the one that moves
AggregateInit ==
  /\ plans = <<1000000, 200000, 30000, 4000>>
  /\ bd = [p \in DOMAIN PlanFixture |->
             IF p = 1
             THEN [NewBreakdown EXCEPT !.q1 = 250000, !.q2 = 250000, !.q3 = 250000,
                                       !.q4 = 250000, !.status = APPROVED]
             ELSE [NewBreakdown EXCEPT !.q1 = 1000 * p, !.q2 = 100 * p,
                                       !.q3 = 10 * p, !.q4 = p]]
  /\ pf = [k \in (DOMAIN PlanFixture) \X PerfQuarters |->
             IF k[1] = 1
             THEN [NewPerformance EXCEPT !.value = 250000, !.sent_to_strategic = TRUE]
             ELSE [NewPerformance EXCEPT
                     !.value = 1000 * k[1],
                     !.status = IF k[1] = 2 THEN DRAFT
                                ELSE IF k[1] = 3 THEN FINAL_APPROVED
                                ELSE REJECTED]]
  /\ windows = {}
  /\ now = 1
  /\ resp = NoResponse
  /\ handoff = NoHandOff
  /\ groups \in GroupTrees
  /\ indicators \in IndicatorLinks
  /\ inflight = NoInFlight

AggregateNext ==
  \/ GroupRetrieveStep
  \/ AnnualPlanUpdateStep
  \/ QuarterValuesUpdateStep
  \/ ValueUpdateStep
  \/ ReportSubmitStep
  \/ ReportApproveStep
  \/ ReportValidateStep
  \/ ReportFinalApproveStep
  \/ ReportRejectStep
  \/ Deliver

AggregateSpec == AggregateInit /\ [][AggregateNext]_vars

-----------------------------------------------------------------------------
(* indicators/serializers.py, indicators/views.py: the write path of the   *)
(* indicator groups                                                        *)

\* a field the request does not carry; 0 is null
Absent == -1

\* the response never comes: the serializer of the response does not end
HANGS == "hangs"

\* pks of the groups the write runs create
GroupWriteIds == {1, 2}

\* department_id, sector_id and parent_id of a create or update request
GroupData ==
  [department_id : {Absent, 0, 1}, sector_id : {Absent, 0, 1},
   parent_id : {Absent, 0} \cup GroupIds]

\* IndicatorGroupWritePermission.has_permission for an unsafe method
GroupWritePermission(u) ==
  \/ User(u).is_superuser
  \/ User(u).role = STATE_MINISTER /\ User(u).sector # 0

\* IndicatorGroupSerializer.validate: data.get('department') and
\* data.get('sector') of the request alone; stored is the instance, unread
GroupValidate(data, stored) ==
  LET department == data.department_id > 0
      sector == data.sector_id > 0
  IN /\ department \/ sector
     /\ ~(department /\ sector)

\* parent_id = PrimaryKeyRelatedField(queryset=IndicatorGroup.objects.all())
ParentExists(data) == data.parent_id > 0 => data.parent_id \in DOMAIN groups

\* the while loop of IndicatorGroup.level and hierarchy_path over the rows G
\* ends: the chain of parents of g reaches a root
RECURSIVE ReachesRoot(_, _, _)
ReachesRoot(G, g, fuel) ==
  IF g = 0 THEN TRUE
  ELSE IF fuel = 0 THEN FALSE
  ELSE ReachesRoot(G, G[g].parent, fuel - 1)

\* the response of a write is the serialized group: level, hierarchy_path
Serialized(G, g) == IF ReachesRoot(G, g, Cardinality(DOMAIN G)) THEN OK ELSE HANGS

\* the instance with the fields of the request set; absent fields stay
ApplyGroupData(row, data) ==
  [department |-> IF data.department_id = Absent THEN row.department
                  ELSE data.department_id,
   sector |-> IF data.sector_id = Absent THEN row.sector ELSE data.sector_id,
   parent |-> IF data.parent_id = Absent THEN row.parent ELSE data.parent_id]

\* the CheckConstraint group_must_have_department_or_sector
GroupConstraint(row) == row.department # 0 \/ row.sector # 0

\* POST /api/indicator-groups/ ; g is the pk of the new row
GroupCreate(u, g, data) ==
  LET req == Request("group_create", u, <<g>>, data)
      row == ApplyGroupData([department |-> 0, sector |-> 0, parent |-> 0], data)
      G == [h \in DOMAIN groups \cup {g} |-> IF h = g THEN row ELSE groups[h]]
  IN /\ g \notin DOMAIN groups
     /\ IF ~GroupWritePermission(u) THEN Fail(req, FORBIDDEN)
        ELSE IF ~ParentExists(data) THEN Fail(req, "invalid")
        ELSE IF ~GroupValidate(data, row) THEN Fail(req, "invalid")
        ELSE IF ~GroupConstraint(row) THEN Fail(req, "integrity_error")
        ELSE /\ groups' = G
             /\ Reply(req, Serialized(G, g), NoStamp)
             /\ UNCHANGED <<plans, bd, pf, windows, now, handoff, indicators, inflight>>

\* PUT and PATCH /api/indicator-groups/{id}/ : department_id, sector_id and
\* parent_id are not required, so a full update may leave them out as well
GroupUpdate(u, g, data, op) ==
  LET req == Request(op, u, <<g>>, data)
      row == ApplyGroupData(groups[g], data)
      G == [groups EXCEPT ![g] = row]
  IN IF ~GroupWritePermission(u) THEN Fail(req, FORBIDDEN)
     ELSE IF g \notin GroupQueryset(u) THEN Fail(req, NOT_FOUND)
     ELSE IF ~ParentExists(data) THEN Fail(req, "invalid")
     ELSE IF ~GroupValidate(data, groups[g]) THEN Fail(req, "invalid")
     ELSE IF ~GroupConstraint(row) THEN Fail(req, "integrity_error")
     ELSE /\ groups' = G
          /\ Reply(req, Serialized(G, g), NoStamp)
          /\ UNCHANGED <<plans, bd, pf, windows, now, handoff, indicators, inflight>>

\* the rows on_delete=CASCADE of parent removes with g: g and its descendants
RECURSIVE Cascade(_, _)
Cascade(S, fuel) ==
  IF fuel = 0 THEN S
  ELSE Cascade(S \cup {h \in DOMAIN groups : groups[h].parent \in S}, fuel - 1)

\* destroy with the guard looking at aggregatable indicators only
GroupDestroy_AggregatableOnly(u, g) ==
  LET req == Request("group_destroy", u, <<g>>, <<>>)
      gone == Cascade({g}, Cardinality(DOMAIN groups))
  IN IF ~GroupWritePermission(u) THEN Fail(req, FORBIDDEN)
     ELSE IF g \notin GroupQueryset(u) THEN Fail(req, NOT_FOUND)
     ELSE IF \E i \in DOMAIN indicators :
               g \in indicators[i].groups /\ indicators[i].is_aggregatable
          THEN Fail(req, "has_indicators")
     ELSE /\ groups' = [h \in DOMAIN groups \ gone |-> groups[h]]
          /\ indicators' = [i \in DOMAIN indicators |->
                              [indicators[i] EXCEPT !.groups = @ \ gone]]
          /\ Reply(req, OK, NoStamp)
          /\ UNCHANGED <<plans, bd, pf, windows, now, handoff, inflight>>

\* IndicatorGroupViewSet.destroy
GroupDestroy(u, g) ==
  LET req == Request("group_destroy", u, <<g>>, <<>>)
      gone == Cascade({g}, Cardinality(DOMAIN groups))
  IN IF ~GroupWritePermission(u) THEN Fail(req, FORBIDDEN)
     ELSE IF g \notin GroupQueryset(u) THEN Fail(req, NOT_FOUND)
     ELSE IF \E i \in DOMAIN indicators : g \in indicators[i].groups
          THEN Fail(req, "has_indicators")
     ELSE /\ groups' = [h \in DOMAIN groups \ gone |-> groups[h]]
          /\ indicators' = [i \in DOMAIN indicators |->
                              [indicators[i] EXCEPT !.groups = @ \ gone]]
          /\ Reply(req, OK, NoStamp)
          /\ UNCHANGED <<plans, bd, pf, windows, now, handoff, inflight>>

\* PUT /api/indicators/{id}/ with group_ids and is_aggregatable
IndicatorUpdate(u, i, group_ids, is_aggregatable) ==
  LET req == Request("indicator_update", u, <<i>>,
                     [group_ids |-> group_ids, is_aggregatable |-> is_aggregatable])
  IN IF ~User(u).is_superuser THEN Fail(req, FORBIDDEN)
     ELSE IF ~(group_ids \subseteq DOMAIN groups) THEN Fail(req, "invalid")
     ELSE /\ indicators' = [indicators EXCEPT
                              ![i] = [groups |-> group_ids,
                                      is_aggregatable |-> is_aggregatable]]
          /\ Reply(req, OK, NoStamp)
          /\ UNCHANGED <<plans, bd, pf, windows, now, handoff, groups, inflight>>

\* the principals of the write runs: a creator without the permission, the
\* minister of sector 1 and the superuser
GroupWriters == {1, 3, 5}

GroupCreateStep ==
  Idle /\ \E u \in GroupWriters, g \in GroupWriteIds, data \in GroupData :
            GroupCreate(u, g, data)

GroupUpdateStep ==
  Idle /\ \E u \in GroupWriters, g \in DOMAIN groups, data \in GroupData :
            GroupUpdate(u, g, data, "group_update")

GroupPartialUpdateStep ==
  Idle /\ \E u \in GroupWriters, g \in DOMAIN groups, data \in GroupData :
            GroupUpdate(u, g, data, "group_partial_update")

GroupDestroyStep ==
  Idle /\ \E u \in GroupWriters, g \in DOMAIN groups : GroupDestroy(u, g)

IndicatorUpdateStep ==
  Idle /\ \E u \in {1, 5}, i \in {1}, group_ids \in SUBSET GroupWriteIds,
             is_aggregatable \in BOOLEAN :
            IndicatorUpdate(u, i, group_ids, is_aggregatable)

\* no group yet, no link, and no plan data
GroupInit ==
  /\ plans = [p \in PlanIds |-> PlanFixture[p].target]
  /\ bd = <<>>
  /\ pf = <<>>
  /\ windows = {}
  /\ now = 1
  /\ resp = NoResponse
  /\ handoff = NoHandOff
  /\ groups = NoGroups
  /\ indicators = UnlinkedIndicators
  /\ inflight = NoInFlight

GroupNext ==
  \/ GroupCreateStep
  \/ GroupUpdateStep
  \/ GroupPartialUpdateStep
  \/ GroupDestroyStep
  \/ IndicatorUpdateStep
  \/ Deliver

GroupSpec == GroupInit /\ [][GroupNext]_vars

-----------------------------------------------------------------------------
(* The reviewer actions of a breakdown in a second worker: obj is read by  *)
(* get_object(), tested and changed in memory, and written by obj.save(),  *)
(* which updates every column of the row from the object in memory         *)

ReviewOps ==
  {"breakdown_approve", "breakdown_validate", "breakdown_final_approve",
   "breakdown_reject"}

\* the tests and assignments of approve, validate, final_approve and reject
\* on the object obj in memory: the status code and the object to save
ReviewInMemory(op, u, comment, obj) ==
  LET role == User(u).role
      refused(code) == [code |-> code, obj |-> obj]
  IN IF op = "breakdown_approve"
     THEN IF role # STATE_MINISTER THEN refused(FORBIDDEN)
          ELSE IF obj.status # SUBMITTED THEN refused(INVALID_STATUS)
          ELSE [code |-> OK,
                obj |-> [obj EXCEPT !.status = APPROVED, !.review_comment = comment]]
     ELSE IF op = "breakdown_validate"
     THEN IF role # STRATEGIC_STAFF THEN refused(FORBIDDEN)
          ELSE IF obj.status # APPROVED THEN refused(INVALID_STATUS)
          ELSE [code |-> OK, obj |-> [obj EXCEPT !.status = VALIDATED]]
     ELSE IF op = "breakdown_final_approve"
     THEN IF role # EXECUTIVE THEN refused(FORBIDDEN)
          ELSE IF obj.status # VALIDATED THEN refused(INVALID_STATUS)
          ELSE [code |-> OK, obj |-> [obj EXCEPT !.status = FINAL_APPROVED]]
     ELSE IF role \notin {STATE_MINISTER, STRATEGIC_STAFF, EXECUTIVE}
          THEN refused(FORBIDDEN)
     ELSE IF role = STRATEGIC_STAFF /\ Strip(comment) = <<>>
          THEN refused("comment_required")
     ELSE IF obj.status \notin {SUBMITTED, APPROVED, VALIDATED}
          THEN refused(INVALID_STATUS)
     ELSE [code |-> OK,
           obj |-> [obj EXCEPT !.status = REJECTED, !.review_comment = Strip(comment)]]

\* obj = self.get_object()
ReviewRead(op, u, p, comment) ==
  /\ inflight.op = "none"
  /\ p \in BreakdownQueryset(u)
  /\ inflight' = [op |-> op, user |-> u, key |-> <<p>>, comment |-> comment,
                  obj |-> bd[p], code |-> ""]
  /\ UNCHANGED <<plans, bd, pf, windows, now, resp, handoff, groups, indicators>>

\* save guarded by the status that was read (UPDATE ... WHERE status = old)
ReviewSave_CompareAndSwap ==
  LET p == inflight.key[1]
      out == ReviewInMemory(inflight.op, inflight.user, inflight.comment, inflight.obj)
  IN /\ inflight.op # "none"
     /\ inflight.code = ""
     /\ p \in DOMAIN bd
     /\ IF out.code = OK /\ bd[p].status = inflight.obj.status
        THEN /\ bd' = [bd EXCEPT ![p] = out.obj]
             /\ inflight' = [inflight EXCEPT !.code = OK]
        ELSE /\ bd' = bd
             /\ inflight' = [inflight EXCEPT !.code =
                               IF out.code = OK THEN INVALID_STATUS ELSE out.code]
     /\ UNCHANGED <<plans, pf, windows, now, resp, handoff, groups, indicators>>

\* the tests, the assignments and obj.save()
ReviewSave ==
  LET p == inflight.key[1]
      out == ReviewInMemory(inflight.op, inflight.user, inflight.comment, inflight.obj)
  IN /\ inflight.op # "none"
     /\ inflight.code = ""
     /\ p \in DOMAIN bd
     /\ bd' = IF out.code = OK THEN [bd EXCEPT ![p] = out.obj] ELSE bd
     /\ inflight' = [inflight EXCEPT !.code = out.code]
     /\ UNCHANGED <<plans, pf, windows, now, resp, handoff, groups, indicators>>

\* return Response(...)
ReviewReturn ==
  /\ inflight.code # ""
  /\ inflight' = NoInFlight
  /\ UNCHANGED <<plans, bd, pf, windows, now, resp, handoff, groups, indicators>>

ReviewReadStep ==
  \E op \in ReviewOps, u \in Users, p \in PlanIds, comment \in ApproveComments :
    ReviewRead(op, u, p, comment)

\* a breakdown on its way through the reviews, handed to the strategic staff
RaceInit ==
  /\ plans = [p \in PlanIds |-> PlanFixture[p].target]
  /\ \E s \in {SUBMITTED, APPROVED, VALIDATED} :
       bd = [p \in PlanIds |->
               [NewBreakdown EXCEPT !.q1 = 250000, !.q2 = 250000, !.q3 = 250000,
                                    !.q4 = 250000, !.status = s,
                                    !.sent_to_strategic = TRUE]]
  /\ pf = <<>>
  /\ windows = {}
  /\ now = 1
  /\ resp = NoResponse
  /\ handoff = NoHandOff
  /\ groups = NoGroups
  /\ indicators = UnlinkedIndicators
  /\ inflight = NoInFlight

RaceNext ==
  \/ ReviewReadStep
  \/ ReviewSave
  \/ ReviewReturn
  \/ BreakdownApproveStep
  \/ BreakdownValidateStep
  \/ BreakdownFinalApproveStep
  \/ BreakdownRejectStep
  \/ Deliver

RaceSpec == RaceInit /\ [][RaceNext]_vars

-----------------------------------------------------------------------------
(* The derived fields of a group and of an indicator: level,               *)
(* hierarchy_path, get_inherited_unit and get_effective_unit. Here a group *)
(* row also carries its name and its unit, an indicator its unit; a string *)
(* is the sequence of its tokens and " > " is the token SEP.               *)

SEP == ">"

\* IndicatorGroup.level: the number of turns of the while loop from g.parent
RECURSIVE Level(_, _)
Level(G, g) == IF G[g].parent = 0 THEN 0 ELSE 1 + Level(G, G[g].parent)

\* path = [self.name], then the name of every ancestor appended, leaf first
RECURSIVE PathUp(_, _)
PathUp(G, g) ==
  IF G[g].parent = 0 THEN <<G[g].name>>
  ELSE <<G[g].name>> \o PathUp(G, G[g].parent)

\* reversed(path)
Reversed(s) == [i \in 1..Len(s) |-> s[Len(s) + 1 - i]]

\* " > ".join(names)
RECURSIVE Join(_)
Join(names) ==
  IF names = <<>> THEN <<>>
  ELSE IF Len(names) = 1 THEN names[1]
  ELSE names[1] \o <<SEP>> \o Join(Tail(names))

\* the path joined without reversed(): leaf first
HierarchyPath_LeafFirst(G, g) == Join(PathUp(G, g))

\* IndicatorGroup.hierarchy_path
HierarchyPath(G, g) == Join(Reversed(PathUp(G, g)))

\* the unit of the parent alone, with no further recursion
GetInheritedUnit_ParentOnly(G, g) ==
  IF G[g].unit # <<>> THEN G[g].unit
  ELSE IF G[g].parent # 0 THEN G[G[g].parent].unit
  ELSE <<>>

\* IndicatorGroup.get_inherited_unit
RECURSIVE GetInheritedUnit(_, _)
GetInheritedUnit(G, g) ==
  IF G[g].unit # <<>> THEN G[g].unit
  ELSE IF G[g].parent # 0 THEN GetInheritedUnit(G, G[g].parent)
  ELSE <<>>

\* Indicator.get_effective_unit: its own unit, or that of self.groups.first()
GetEffectiveUnit(I, G, i) ==
  IF I[i].unit # <<>> THEN I[i].unit
  ELSE IF First(I[i].groups) # 0 THEN GetInheritedUnit(G, First(I[i].groups))
  ELSE <<>>

\* the level, hierarchy_path and inherited_unit fields of a serialized group
GroupFields(g) ==
  /\ Idle
  /\ Reply(Request("group_fields", 0, <<g>>,
                   [level |-> Level(groups, g),
                    hierarchy_path |-> HierarchyPath(groups, g),
                    inherited_unit |-> GetInheritedUnit(groups, g)]),
           OK, NoStamp)
  /\ UNCHANGED <<plans, bd, pf, windows, now, handoff, groups, indicators, inflight>>

\* the unit of the hierarchy_context of a serialized indicator: the value
\* of get_effective_unit (self.unit with no group, which is the same value)
IndicatorFields(i) ==
  /\ Idle
  /\ Reply(Request("indicator_fields", 0, <<i>>,
                   [effective_unit |-> GetEffectiveUnit(indicators, groups, i)]),
           OK, NoStamp)
  /\ UNCHANGED <<plans, bd, pf, windows, now, handoff, groups, indicators, inflight>>

\* the parent columns of three groups that form a forest
Forests ==
  {f \in [GroupIds -> {0} \cup GroupIds] :
     \A g \in GroupIds : ReachesRoot([h \in GroupIds |-> [parent |-> f[h]]], g,
                                     Cardinality(GroupIds))}

\* names of groups: one holds the text " > "
NameInputs == {<<"a">>, <<"b">>, <<"a", SEP, "b">>}

\* units of groups and indicators
UnitInputs == {<<>>, <<"kg">>, <<"t">>}

ForestInit ==
  /\ plans = [p \in PlanIds |-> PlanFixture[p].target]
  /\ bd = <<>>
  /\ pf = <<>>
  /\ windows = {}
  /\ now = 1
  /\ resp = NoResponse
  /\ handoff = NoHandOff
  /\ \E f \in Forests, n \in [{1, 2} -> NameInputs],
        un \in [GroupIds -> {<<>>, <<"kg">>}] :
       groups = [g \in GroupIds |->
                   [department |-> 1, sector |-> 0, parent |-> f[g],
                    name |-> IF g = 3 THEN <<"b">> ELSE n[g], unit |-> un[g]]]
  /\ \E l \in {{}, {3}, {2, 3}}, un \in UnitInputs :
       indicators = [i \in IndicatorIds |->
                       [groups |-> IF i = 1 THEN l ELSE {}, is_aggregatable |-> TRUE,
                        unit |-> IF i = 1 THEN un ELSE <<>>]]
  /\ inflight = NoInFlight

ForestNext ==
  \/ \E g \in GroupIds : GroupFields(g)
  \/ \E i \in IndicatorIds : IndicatorFields(i)
  \/ Deliver

ForestSpec == ForestInit /\ [][ForestNext]_vars

-----------------------------------------------------------------------------
(* A reviewer action of a second worker around the hand-off of the first   *)

\* submit_to_strategic of a STATE_MINISTER for breakdowns alone
HandOffPlansStep ==
  Idle /\ \E u \in {u \in Users : User(u).role = STATE_MINISTER},
             breakdown_ids \in SUBSET PlanIds :
            SubmitToStrategic(u, "plans", breakdown_ids, {})

\* breakdowns that passed the first review and are not handed off yet
FlagRaceInit ==
  /\ plans = [p \in PlanIds |-> PlanFixture[p].target]
  /\ bd = [p \in PlanIds |->
             [NewBreakdown EXCEPT !.q1 = 250000, !.q2 = 250000, !.q3 = 250000,
                                  !.q4 = 250000, !.status = APPROVED]]
  /\ pf = <<>>
  /\ windows = {}
  /\ now = 1
  /\ resp = NoResponse
  /\ handoff = NoHandOff
  /\ groups = NoGroups
  /\ indicators = UnlinkedIndicators
  /\ inflight = NoInFlight

FlagRaceNext ==
  \/ HandOffPlansStep
  \/ ReviewReadStep
  \/ ReviewSave
  \/ ReviewReturn
  \/ BreakdownAdvisorReviewStep
  \/ Deliver

FlagRaceSpec == FlagRaceInit /\ [][FlagRaceNext]_vars

-----------------------------------------------------------------------------
(* Properties                                                              *)

\* C1, as stated: for a breakdown and for a performance report within the
\* department/sector scope of the actor, approve succeeds iff the actor is
\* STATE_MINISTER and the status is SUBMITTED (and sets APPROVED), validate
\* succeeds iff the actor is STRATEGIC_STAFF and the status is APPROVED (and
\* sets VALIDATED), final_approve succeeds iff the actor is EXECUTIVE and the
\* status is VALIDATED (and sets FINAL_APPROVED).
C1_AsStated ==
  [][ /\ \A p \in DOMAIN bd :
           (resp'.key = <<p>> /\ InDepartmentSectorScope(resp'.user, p)) =>
             LET role == User(resp'.user).role
                 done == resp'.code = OK
             IN /\ resp'.op = "breakdown_approve" =>
                     /\ done <=> (role = STATE_MINISTER /\ bd[p].status = SUBMITTED)
                     /\ done => bd'[p].status = APPROVED
                /\ resp'.op = "breakdown_validate" =>
                     /\ done <=> (role = STRATEGIC_STAFF /\ bd[p].status = APPROVED)
                     /\ done => bd'[p].status = VALIDATED
                /\ resp'.op = "breakdown_final_approve" =>
                     /\ done <=> (role = EXECUTIVE /\ bd[p].status = VALIDATED)
                     /\ done => bd'[p].status = FINAL_APPROVED
      /\ \A k \in DOMAIN pf :
           (resp'.key = k /\ InDepartmentSectorScope(resp'.user, k[1])) =>
             LET role == User(resp'.user).role
                 done == resp'.code = OK
             IN /\ resp'.op = "performance_approve" =>
                     /\ done <=> (role = STATE_MINISTER /\ pf[k].status = SUBMITTED)
                     /\ done => pf'[k].status = APPROVED
                /\ resp'.op = "performance_validate" =>
                     /\ done <=> (role = STRATEGIC_STAFF /\ pf[k].status = APPROVED)
                     /\ done => pf'[k].status = VALIDATED
                /\ resp'.op = "performance_final_approve" =>
                     /\ done <=> (role = EXECUTIVE /\ pf[k].status = VALIDATED)
                     /\ done => pf'[k].status = FINAL_APPROVED
    ]_vars

\* C1, amended: as above, except that validate succeeds iff the actor is
\* STRATEGIC_STAFF, the status is APPROVED and the record has been handed
\* over (sent_to_strategic is true) or the actor is a superuser.
C1_Transitions ==
  [][ /\ \A p \in DOMAIN bd :
           (resp'.key = <<p>> /\ InDepartmentSectorScope(resp'.user, p)) =>
             LET role == User(resp'.user).role
                 done == resp'.code = OK
             IN /\ resp'.op = "breakdown_approve" =>
                     /\ done <=> (role = STATE_MINISTER /\ bd[p].status = SUBMITTED)
                     /\ done => bd'[p].status = APPROVED
                /\ resp'.op = "breakdown_validate" =>
                     /\ done <=> /\ role = STRATEGIC_STAFF
                                 /\ bd[p].status = APPROVED
                                 /\ (bd[p].sent_to_strategic
                                       \/ User(resp'.user).is_superuser)
                     /\ done => bd'[p].status = VALIDATED
                /\ resp'.op = "breakdown_final_approve" =>
                     /\ done <=> (role = EXECUTIVE /\ bd[p].status = VALIDATED)
                     /\ done => bd'[p].status = FINAL_APPROVED
      /\ \A k \in DOMAIN pf :
           (resp'.key = k /\ InDepartmentSectorScope(resp'.user, k[1])) =>
             LET role == User(resp'.user).role
                 done == resp'.code = OK
             IN /\ resp'.op = "performance_approve" =>
                     /\ done <=> (role = STATE_MINISTER /\ pf[k].status = SUBMITTED)
                     /\ done => pf'[k].status = APPROVED
                /\ resp'.op = "performance_validate" =>
                     /\ done <=> /\ role = STRATEGIC_STAFF
                                 /\ pf[k].status = APPROVED
                                 /\ (pf[k].sent_to_strategic
                                       \/ User(resp'.user).is_superuser)
                     /\ done => pf'[k].status = VALIDATED
                /\ resp'.op = "performance_final_approve" =>
                     /\ done <=> (role = EXECUTIVE /\ pf[k].status = VALIDATED)
                     /\ done => pf'[k].status = FINAL_APPROVED
    ]_vars

\* C1, witness: STRATEGIC_STAFF has just validated a performance report that
\* was handed over.
C1_Witness ==
  /\ resp.op = "performance_validate"
  /\ resp.code = OK
  /\ User(resp.user).role = STRATEGIC_STAFF
  /\ pf[resp.key].status = VALIDATED
  /\ pf[resp.key].sent_to_strategic

C3_BreakdownSubmit ==
  [][ \A p \in DOMAIN bd :
        ( /\ resp'.op = "breakdown_submit"
          /\ resp'.key = <<p>>
          /\ InDepartmentSectorScope(resp'.user, p) )
        => LET done == resp'.code = OK
               gate == /\ User(resp'.user).role = LEAD_EXECUTIVE_BODY
                       /\ WithinAnnualBreakdownWindow(windows, Timeline[now])
                       /\ bd[p].status \in {DRAFT, REJECTED}
               quarters == <<bd[p].q1, bd[p].q2, bd[p].q3, bd[p].q4>>
           IN /\ done <=> (gate /\ Quantize(Total(bd[p])) = Quantize(plans[p]))
              /\ done => /\ bd'[p] = [bd[p] EXCEPT !.status = SUBMITTED]
                         /\ resp'.stamp.field = "submitted"
                         /\ resp'.stamp.by = resp'.user
                         /\ resp'.stamp.at = Timeline[now]
              /\ (gate /\ plans[p] = 1000000
                    /\ quarters = <<250000, 250000, 250000, 250000>>) => done
              /\ (gate /\ plans[p] = 1000000
                    /\ quarters = <<250000, 250000, 250000, 249990>>)
                   => (resp'.code = "sum_mismatch" /\ bd' = bd)
    ]_vars

\* C3, witness: a submit of the quarters (250, 250, 250, 249.99) against the
\* target 1000.00 has just been refused with the sum error.
C3_Witness ==
  /\ resp.op = "breakdown_submit"
  /\ resp.code = "sum_mismatch"
  /\ plans[resp.key[1]] = 1000000
  /\ bd[resp.key[1]].q4 = 249990
  /\ bd[resp.key[1]].status \in {DRAFT, REJECTED}

\* C4: a performance submit succeeds only if the actor is
\* LEAD_EXECUTIVE_BODY, the status is DRAFT or REJECTED, the window of the
\* quarter is open and the parent breakdown exists with status APPROVED,
\* VALIDATED or FINAL_APPROVED; while the parent breakdown is absent, DRAFT,
\* SUBMITTED or REJECTED the submit is refused for every actor and every
\* window state and the performance tables are unchanged.
C4_PerformanceSubmit ==
  [][ \A k \in PerfKeys :
        (resp'.op = "performance_submit" /\ resp'.key = k)
        => LET done == resp'.code = OK
           IN /\ done => /\ k \in DOMAIN pf
                         /\ User(resp'.user).role = LEAD_EXECUTIVE_BODY
                         /\ pf[k].status \in {DRAFT, REJECTED}
                         /\ WithinQuarterSubmissionWindow(windows, Timeline[now], k[2])
                         /\ k[1] \in DOMAIN bd
                         /\ bd[k[1]].status \in {APPROVED, VALIDATED, FINAL_APPROVED}
              /\ (k[1] \notin DOMAIN bd
                    \/ bd[k[1]].status \in {DRAFT, SUBMITTED, REJECTED})
                   => (~done /\ pf' = pf /\ resp'.stamp = NoStamp)
    ]_vars

\* C4, witness: LEAD_EXECUTIVE_BODY has just been refused the submit of a
\* DRAFT performance report, in the open window, because the parent breakdown
\* had gone back to REJECTED.
C4_Witness ==
  /\ resp.op = "performance_submit"
  /\ resp.code = "breakdown_not_approved"
  /\ User(resp.user).role = LEAD_EXECUTIVE_BODY
  /\ pf[resp.key].status = DRAFT
  /\ resp.key[1] \in DOMAIN bd
  /\ bd[resp.key[1]].status = REJECTED

\* C5, as stated: for a record within the department/sector scope of the
\* actor, reject succeeds iff the actor is STATE_MINISTER, STRATEGIC_STAFF or
\* EXECUTIVE, the status is SUBMITTED, APPROVED or VALIDATED and, for
\* STRATEGIC_STAFF only, the comment is non-empty after trimming; it then
\* sets REJECTED and stores the comment.  On a DRAFT or FINAL_APPROVED record
\* reject answers an error and changes nothing.
C5_AsStated ==
  [][ /\ \A p \in DOMAIN bd :
           ( /\ resp'.op = "breakdown_reject"
             /\ resp'.key = <<p>>
             /\ InDepartmentSectorScope(resp'.user, p) )
           => LET role == User(resp'.user).role
                  done == resp'.code = OK
              IN /\ done <=> /\ role \in {STATE_MINISTER, STRATEGIC_STAFF, EXECUTIVE}
                             /\ bd[p].status \in {SUBMITTED, APPROVED, VALIDATED}
                             /\ role = STRATEGIC_STAFF => Strip(resp'.arg) # <<>>
                 /\ done => bd'[p] = [bd[p] EXCEPT !.status = REJECTED,
                                                   !.review_comment = Strip(resp'.arg)]
                 /\ bd[p].status \in {DRAFT, FINAL_APPROVED} => (~done /\ bd' = bd)
      /\ \A k \in DOMAIN pf :
           ( /\ resp'.op = "performance_reject"
             /\ resp'.key = k
             /\ InDepartmentSectorScope(resp'.user, k[1]) )
           => LET role == User(resp'.user).role
                  done == resp'.code = OK
              IN /\ done <=> /\ role \in {STATE_MINISTER, STRATEGIC_STAFF, EXECUTIVE}
                             /\ pf[k].status \in {SUBMITTED, APPROVED, VALIDATED}
                             /\ role = STRATEGIC_STAFF => Strip(resp'.arg) # <<>>
                 /\ done => /\ pf'[k] = [pf[k] EXCEPT !.status = REJECTED]
                            /\ resp'.stamp.review_comment = Strip(resp'.arg)
                 /\ pf[k].status \in {DRAFT, FINAL_APPROVED} => (~done /\ pf' = pf)
    ]_vars

\* C5, amended: as above, with one more condition for STRATEGIC_STAFF: the
\* record has been handed over (sent_to_strategic is true) or the actor is a
\* superuser.  The comment stored is the trimmed comment.
C5_Reject ==
  [][ /\ \A p \in DOMAIN bd :
           ( /\ resp'.op = "breakdown_reject"
             /\ resp'.key = <<p>>
             /\ InDepartmentSectorScope(resp'.user, p) )
           => LET role == User(resp'.user).role
                  done == resp'.code = OK
              IN /\ done <=> /\ role \in {STATE_MINISTER, STRATEGIC_STAFF, EXECUTIVE}
                             /\ bd[p].status \in {SUBMITTED, APPROVED, VALIDATED}
                             /\ role = STRATEGIC_STAFF =>
                                  /\ Strip(resp'.arg) # <<>>
                                  /\ (bd[p].sent_to_strategic
                                        \/ User(resp'.user).is_superuser)
                 /\ done => bd'[p] = [bd[p] EXCEPT !.status = REJECTED,
                                                   !.review_comment = Strip(resp'.arg)]
                 /\ bd[p].status \in {DRAFT, FINAL_APPROVED} => (~done /\ bd' = bd)
      /\ \A k \in DOMAIN pf :
           ( /\ resp'.op = "performance_reject"
             /\ resp'.key = k
             /\ InDepartmentSectorScope(resp'.user, k[1]) )
           => LET role == User(resp'.user).role
                  done == resp'.code = OK
              IN /\ done <=> /\ role \in {STATE_MINISTER, STRATEGIC_STAFF, EXECUTIVE}
                             /\ pf[k].status \in {SUBMITTED, APPROVED, VALIDATED}
                             /\ role = STRATEGIC_STAFF =>
                                  /\ Strip(resp'.arg) # <<>>
                                  /\ (pf[k].sent_to_strategic
                                        \/ User(resp'.user).is_superuser)
                 /\ done => /\ pf'[k] = [pf[k] EXCEPT !.status = REJECTED]
                            /\ resp'.stamp.review_comment = Strip(resp'.arg)
                 /\ pf[k].status \in {DRAFT, FINAL_APPROVED} => (~done /\ pf' = pf)
    ]_vars

\* C5, witness: STRATEGIC_STAFF has just rejected, with a note, a breakdown
\* that was handed over.
C5_Witness ==
  /\ resp.op = "breakdown_reject"
  /\ resp.code = OK
  /\ User(resp.user).role = STRATEGIC_STAFF
  /\ Strip(resp.arg) # <<>>
  /\ bd[resp.key[1]].status = REJECTED
  /\ bd[resp.key[1]].review_comment = Strip(resp.arg)
  /\ bd[resp.key[1]].sent_to_strategic

\* C6: FINAL_APPROVED is terminal: no create, update, submit, approve,
\* validate, final_approve, reject, advisor_review or submit_to_strategic
\* changes the status of a breakdown or of a performance report that is
\* FINAL_APPROVED.
C6_FinalApprovedIsTerminal ==
  [][ resp'.op \notin {"none", "breakdown_destroy", "performance_destroy",
                       "window_create", "window_destroy"}
      => /\ \A p \in DOMAIN bd :
              bd[p].status = FINAL_APPROVED
                => (p \in DOMAIN bd' /\ bd'[p].status = FINAL_APPROVED)
         /\ \A k \in DOMAIN pf :
              pf[k].status = FINAL_APPROVED
                => (k \in DOMAIN pf' /\ pf'[k].status = FINAL_APPROVED)
    ]_vars

\* C7: the status moves only through submit, approve, validate, final_approve
\* and reject: a newly created record is DRAFT, and no other request changes
\* the status of a record.
C7_StatusMovesOnlyByTransitions ==
  [][ /\ \A p \in DOMAIN bd' :
           IF p \notin DOMAIN bd THEN bd'[p].status = DRAFT
           ELSE bd'[p].status # bd[p].status
                  => resp'.op \in {"breakdown_submit", "breakdown_approve",
                                   "breakdown_validate", "breakdown_final_approve",
                                   "breakdown_reject"}
      /\ \A k \in DOMAIN pf' :
           IF k \notin DOMAIN pf THEN pf'[k].status = DRAFT
           ELSE pf'[k].status # pf[k].status
                  => resp'.op \in {"performance_submit", "performance_approve",
                                   "performance_validate", "performance_final_approve",
                                   "performance_reject"}
    ]_vars

\* C8: a submit, approve, validate, final_approve, reject, advisor_review or
\* submit_to_strategic that is refused changes no field of any breakdown or
\* performance report (no stored column and no stage field).
C8_RefusedChangesNothing ==
  [][ ( /\ resp'.op \in {"breakdown_submit", "breakdown_approve", "breakdown_validate",
                         "breakdown_final_approve", "breakdown_reject",
                         "breakdown_advisor_review",
                         "performance_submit", "performance_approve",
                         "performance_validate", "performance_final_approve",
                         "performance_reject", "submit_to_strategic"}
        /\ resp'.code # OK )
      => (bd' = bd /\ pf' = pf /\ resp'.stamp = NoStamp)
    ]_vars

\* C8, witness: a hand-off listing an APPROVED breakdown has just been refused
\* because a record of the year is pending, and the breakdown is not flagged.
C8_Witness ==
  /\ resp.op = "submit_to_strategic"
  /\ resp.code = "blocked"
  /\ \E p \in DOMAIN bd : /\ p \in resp.arg.breakdown_ids
                          /\ bd[p].status = APPROVED
                          /\ ~bd[p].sent_to_strategic

\* C9: an update changes a breakdown only while its status is DRAFT or
\* REJECTED: an update of a SUBMITTED, APPROVED, VALIDATED or FINAL_APPROVED
\* breakdown is refused for every role and changes nothing.
C9_BreakdownUpdateOnlyWhileDraft ==
  [][ \A p \in DOMAIN bd :
        ( /\ resp'.op = "breakdown_update"
          /\ resp'.key = <<p>>
          /\ bd[p].status \in {SUBMITTED, APPROVED, VALIDATED, FINAL_APPROVED} )
        => (resp'.code # OK /\ bd' = bd)
    ]_vars

\* C10: an update of a performance report succeeds only when the status is
\* DRAFT or REJECTED and the actor is LEAD_EXECUTIVE_BODY, or the status is
\* SUBMITTED and the actor is STATE_MINISTER within their department.
C10_PerformanceUpdateCases ==
  [][ \A k \in DOMAIN pf :
        ( /\ resp'.op = "performance_update"
          /\ resp'.key = k
          /\ resp'.code = OK )
        => \/ /\ pf[k].status \in {DRAFT, REJECTED}
              /\ User(resp'.user).role = LEAD_EXECUTIVE_BODY
           \/ /\ pf[k].status = SUBMITTED
              /\ User(resp'.user).role = STATE_MINISTER
              /\ InDepartmentSectorScope(resp'.user, k[1])
    ]_vars

\* C11: at a performance submit that passes the role, status, window and
\* parent-breakdown checks: when the quarter target is positive and
\* value / target x 100 is below 84 or above 110, the submit is refused
\* unless the variance description is non-empty after trimming, and on
\* success the trimmed description is written together with SUBMITTED; at
\* exactly 84 and exactly 110, and when the quarter target is 0, no
\* description is required.  Value 50 against target 100 is refused with an
\* empty description and accepted with a non-empty one.
C11_VarianceDescription ==
  [][ \A k \in DOMAIN pf :
        ( /\ resp'.op = "performance_submit"
          /\ resp'.key = k
          /\ InDepartmentSectorScope(resp'.user, k[1])
          /\ User(resp'.user).role = LEAD_EXECUTIVE_BODY
          /\ pf[k].status \in {DRAFT, REJECTED}
          /\ WithinQuarterSubmissionWindow(windows, Timeline[now], k[2])
          /\ k[1] \in DOMAIN bd
          /\ bd[k[1]].status \in {APPROVED, VALIDATED, FINAL_APPROVED} )
        => LET target == bd[k[1]].q4
               value == pf[k].value
               outside == /\ target > 0
                          /\ \/ value * 100 < 84 * target
                             \/ value * 100 > 110 * target
               text == Strip(resp'.arg)
               done == resp'.code = OK
           IN /\ k[2] = 4
              /\ done <=> (outside => text # <<>>)
              /\ ~done => (resp'.code = "variance_required" /\ pf' = pf)
              /\ done => /\ pf'[k].status = SUBMITTED
                         /\ resp'.stamp.field = "submitted"
                         /\ outside => resp'.stamp.variance_description = text
              /\ (target > 0 /\ value * 100 \in {84 * target, 110 * target}) => done
              /\ target = 0 => done
              /\ (value = 50000 /\ target = 100000) => (done <=> text # <<>>)
    ]_vars

\* C11, witness: a report of 110.01 against the quarter target 100.00 has
\* just been refused for want of a variance description.
C11_Witness ==
  /\ resp.op = "performance_submit"
  /\ resp.code = "variance_required"
  /\ pf[resp.key].value = 110010
  /\ bd[resp.key[1]].q4 = 100000
  /\ Strip(resp.arg) = <<>>

\* C12: submit_to_strategic by a STATE_MINISTER is refused in full, setting
\* no flag on any record, whenever for some year of a listed record of a
\* category the mode selects there is, within the department/sector scope of
\* the minister, a record of a category the mode selects whose status is
\* DRAFT, SUBMITTED or REJECTED, even when every listed record is APPROVED.
C12_PendingBlocksHandOff ==
  [][ ( /\ resp'.op = "submit_to_strategic"
        /\ User(resp'.user).role = STATE_MINISTER )
      => LET u == resp'.user
             mode == resp'.arg.mode
             plansSelected == mode \in {"", "both", "plans"}
             perfsSelected == mode \in {"", "both", "performances"}
             years == {PlanFixture[p].year :
                         p \in {x \in resp'.arg.breakdown_ids \cap DOMAIN bd :
                                  plansSelected}}
                      \cup
                      {PlanFixture[k[1]].year :
                         k \in {x \in resp'.arg.performance_ids \cap DOMAIN pf :
                                  perfsSelected}}
             pending ==
               \E y \in years :
                 \/ /\ plansSelected
                    /\ \E p \in DOMAIN bd :
                         /\ InDepartmentSectorScope(u, p)
                         /\ PlanFixture[p].year = y
                         /\ bd[p].status \in {DRAFT, SUBMITTED, REJECTED}
                 \/ /\ perfsSelected
                    /\ \E k \in DOMAIN pf :
                         /\ InDepartmentSectorScope(u, k[1])
                         /\ PlanFixture[k[1]].year = y
                         /\ pf[k].status \in {DRAFT, SUBMITTED, REJECTED}
         IN pending => (resp'.code # OK /\ bd' = bd /\ pf' = pf)
    ]_vars

\* C12, witness: a hand-off in mode "plans" that lists only an APPROVED
\* breakdown has just been refused because another breakdown of the same
\* year and department is still DRAFT; the listed breakdown is not flagged.
C12_Witness ==
  /\ resp.op = "submit_to_strategic"
  /\ resp.code = "blocked"
  /\ resp.arg.mode = "plans"
  /\ resp.arg.breakdown_ids = {1}
  /\ {1, 2} \subseteq DOMAIN bd
  /\ bd[1].status = APPROVED
  /\ ~bd[1].sent_to_strategic
  /\ bd[2].status = DRAFT

\* C13: on a successful submit_to_strategic the flag sent_to_strategic of a
\* record becomes true iff its id is listed, the mode selects its category,
\* it lies in the department/sector scope of the minister and its status is
\* APPROVED; every other record (listed and VALIDATED or FINAL_APPROVED,
\* unlisted, out of scope) keeps its flag, and no status changes.  A caller
\* who is not STATE_MINISTER is refused and nothing changes.
C13_HandOffFlags ==
  [][ resp'.op = "submit_to_strategic"
      => LET u == resp'.user
             mode == resp'.arg.mode
             plansSelected == mode \in {"", "both", "plans"}
             perfsSelected == mode \in {"", "both", "performances"}
         IN /\ User(u).role # STATE_MINISTER
                 => (resp'.code # OK /\ bd' = bd /\ pf' = pf)
            /\ resp'.code = OK
                 => /\ DOMAIN bd' = DOMAIN bd
                    /\ DOMAIN pf' = DOMAIN pf
                    /\ \A p \in DOMAIN bd :
                         bd'[p] = IF /\ p \in resp'.arg.breakdown_ids
                                     /\ plansSelected
                                     /\ InDepartmentSectorScope(u, p)
                                     /\ bd[p].status = APPROVED
                                  THEN [bd[p] EXCEPT !.sent_to_strategic = TRUE]
                                  ELSE bd[p]
                    /\ \A k \in DOMAIN pf :
                         pf'[k] = IF /\ k \in resp'.arg.performance_ids
                                     /\ perfsSelected
                                     /\ InDepartmentSectorScope(u, k[1])
                                     /\ pf[k].status = APPROVED
                                  THEN [pf[k] EXCEPT !.sent_to_strategic = TRUE]
                                  ELSE pf[k]
    ]_vars

\* C13, witness: a hand-off that listed an APPROVED breakdown in scope, a
\* VALIDATED breakdown in scope and an APPROVED breakdown of another
\* department has just succeeded, and only the first one is flagged.
C13_Witness ==
  /\ resp.op = "submit_to_strategic"
  /\ resp.code = OK
  /\ {1, 2, 4} \subseteq resp.arg.breakdown_ids
  /\ {1, 2, 4} \subseteq DOMAIN bd
  /\ bd[1].status = APPROVED /\ bd[1].sent_to_strategic
  /\ bd[2].status = VALIDATED /\ ~bd[2].sent_to_strategic
  /\ bd[4].status = APPROVED /\ ~bd[4].sent_to_strategic
  /\ ~InDepartmentSectorScope(resp.user, 4)

\* C14: a STRATEGIC_STAFF user who is not a superuser can retrieve, validate
\* or reject a breakdown or a performance report only if its
\* sent_to_strategic flag is true; a validate or reject on an unflagged
\* record fails and changes nothing, whatever the status of the record.
C14_StrategicStaffSeesFlaggedOnly ==
  [][ ( /\ resp'.user \in Users
        /\ User(resp'.user).role = STRATEGIC_STAFF
        /\ ~User(resp'.user).is_superuser )
      => /\ \A p \in DOMAIN bd :
              ( /\ resp'.op \in {"breakdown_retrieve", "breakdown_validate",
                                 "breakdown_reject"}
                /\ resp'.key = <<p>>
                /\ ~bd[p].sent_to_strategic )
              => (resp'.code # OK /\ bd' = bd /\ pf' = pf /\ resp'.stamp = NoStamp)
         /\ \A k \in DOMAIN pf :
              ( /\ resp'.op \in {"performance_retrieve", "performance_validate",
                                 "performance_reject"}
                /\ resp'.key = k
                /\ ~pf[k].sent_to_strategic )
              => (resp'.code # OK /\ bd' = bd /\ pf' = pf /\ resp'.stamp = NoStamp)
    ]_vars

\* C14, witness: STRATEGIC_STAFF has just been refused the validation of an
\* APPROVED performance report that was not handed over.
C14_Witness ==
  /\ resp.op = "performance_validate"
  /\ resp.code = NOT_FOUND
  /\ User(resp.user).role = STRATEGIC_STAFF
  /\ ~User(resp.user).is_superuser
  /\ resp.key \in DOMAIN pf
  /\ pf[resp.key].status = APPROVED
  /\ ~pf[resp.key].sent_to_strategic

\* C15: the pending check and the flag updates of submit_to_strategic are one
\* atomic step: when a flag is set, no record of a category the mode selects,
\* of a touched year and within the scope of the minister, is DRAFT,
\* SUBMITTED or REJECTED; and when the mode selects both categories, the
\* breakdown flags and the performance flags are set in the same step.
C15_HandOffIsAtomic ==
  [][ LET bdSet == {p \in DOMAIN bd \cap DOMAIN bd' :
                      ~bd[p].sent_to_strategic /\ bd'[p].sent_to_strategic}
          pfSet == {k \in DOMAIN pf \cap DOMAIN pf' :
                      ~pf[k].sent_to_strategic /\ pf'[k].sent_to_strategic}
          call == IF handoff.phase # "none" THEN handoff
                  ELSE [user |-> resp'.user, mode |-> resp'.arg.mode,
                        breakdown_ids |-> resp'.arg.breakdown_ids,
                        performance_ids |-> resp'.arg.performance_ids]
          plansSelected == call.mode \in {"", "both", "plans"}
          perfsSelected == call.mode \in {"", "both", "performances"}
          years == {PlanFixture[p].year :
                      p \in {x \in call.breakdown_ids \cap DOMAIN bd : plansSelected}}
                   \cup
                   {PlanFixture[k[1]].year :
                      k \in {x \in call.performance_ids \cap DOMAIN pf : perfsSelected}}
          pendingBd == {p \in DOMAIN bd :
                          /\ plansSelected
                          /\ InDepartmentSectorScope(call.user, p)
                          /\ PlanFixture[p].year \in years
                          /\ bd[p].status \in {DRAFT, SUBMITTED, REJECTED}}
          pendingPf == {k \in DOMAIN pf :
                          /\ perfsSelected
                          /\ InDepartmentSectorScope(call.user, k[1])
                          /\ PlanFixture[k[1]].year \in years
                          /\ pf[k].status \in {DRAFT, SUBMITTED, REJECTED}}
          dueBd == {p \in call.breakdown_ids \cap DOMAIN bd :
                      /\ plansSelected
                      /\ InDepartmentSectorScope(call.user, p)
                      /\ bd[p].status = APPROVED
                      /\ ~bd[p].sent_to_strategic}
          duePf == {k \in call.performance_ids \cap DOMAIN pf :
                      /\ perfsSelected
                      /\ InDepartmentSectorScope(call.user, k[1])
                      /\ pf[k].status = APPROVED
                      /\ ~pf[k].sent_to_strategic}
      IN (bdSet # {} \/ pfSet # {})
           => /\ pendingBd = {}
              /\ pendingPf = {}
              /\ bdSet = dueBd
              /\ pfSet = duePf
    ]_vars

\* C16: every create and every update of a breakdown or of a performance
\* report is refused, and changes nothing, when the relevant submission
\* window (BREAKDOWN, or PERFORMANCE of the quarter of the record) is closed,
\* and when the actor has a department that is not the department of the
\* plan of the record, whatever the role of the actor.
C16_EditsCheckWindowAndDepartment ==
  [][ /\ \A p \in DOMAIN plans :
           ( /\ resp'.op \in {"breakdown_create", "breakdown_update"}
             /\ resp'.key = <<p>>
             /\ \/ ~WithinAnnualBreakdownWindow(windows, Timeline[now])
                \/ /\ User(resp'.user).department # 0
                   /\ User(resp'.user).department # PlanFixture[p].department )
           => (resp'.code # OK /\ bd' = bd /\ pf' = pf)
      /\ \A p \in DOMAIN plans, q \in 1..4 :
           ( /\ resp'.op \in {"performance_create", "performance_update"}
             /\ resp'.key = <<p, q>>
             /\ \/ ~WithinQuarterSubmissionWindow(windows, Timeline[now], q)
                \/ /\ User(resp'.user).department # 0
                   /\ User(resp'.user).department # PlanFixture[p].department )
           => (resp'.code # OK /\ bd' = bd /\ pf' = pf)
    ]_vars

\* C16, witness: the LEAD_EXECUTIVE_BODY user of the department of the plan
\* has just been refused an update of their DRAFT breakdown because the
\* breakdown window is closed.
C16_Witness ==
  /\ resp.op = "breakdown_update"
  /\ resp.code = WINDOW_CLOSED
  /\ User(resp.user).role = LEAD_EXECUTIVE_BODY
  /\ resp.key[1] \in DOMAIN bd
  /\ User(resp.user).department = PlanFixture[resp.key[1]].department
  /\ bd[resp.key[1]].status = DRAFT
  /\ ~WithinAnnualBreakdownWindow(windows, Timeline[now])

\* C17: the quarter sum is compared with the target only at submit: a create,
\* and an update of a DRAFT or REJECTED breakdown, by the LEAD_EXECUTIVE_BODY
\* user of the department while the window is open, with quarter values
\* whose sum differs from the target of the plan, is accepted and the values
\* are stored; the submit of a DRAFT or REJECTED breakdown whose sum equals
\* the target is accepted, whatever was stored before.
C17_SumCheckedOnlyAtSubmit ==
  [][ \A p \in DOMAIN plans :
        LET u == resp'.user
            data == resp'.arg
            mayEdit == /\ User(u).role = LEAD_EXECUTIVE_BODY
                       /\ User(u).department \in {0, PlanFixture[p].department}
                       /\ WithinAnnualBreakdownWindow(windows, Timeline[now])
            stored == /\ resp'.code = OK
                      /\ p \in DOMAIN bd'
                      /\ <<bd'[p].q1, bd'[p].q2, bd'[p].q3, bd'[p].q4>> = data.q
        IN /\ ( /\ resp'.op = "breakdown_create" /\ resp'.key = <<p>>
                /\ mayEdit
                /\ p \notin DOMAIN bd
                /\ data.q[1] + data.q[2] + data.q[3] + data.q[4] # plans[p] )
              => stored
           /\ ( /\ resp'.op = "breakdown_update" /\ resp'.key = <<p>>
                /\ mayEdit
                /\ p \in DOMAIN bd
                /\ bd[p].status \in {DRAFT, REJECTED}
                /\ data.q # NoQ
                /\ data.q[1] + data.q[2] + data.q[3] + data.q[4] # plans[p] )
              => stored
           /\ ( /\ resp'.op = "breakdown_submit" /\ resp'.key = <<p>>
                /\ mayEdit
                /\ p \in DOMAIN bd
                /\ bd[p].status \in {DRAFT, REJECTED}
                /\ bd[p].q1 + bd[p].q2 + bd[p].q3 + bd[p].q4 = plans[p] )
              => (resp'.code = OK /\ bd'[p].status = SUBMITTED)
    ]_vars

\* C17, witness: an update has just stored quarters summing to 999.99 in a
\* DRAFT breakdown of a plan whose target is 1000.00.
C17_Witness ==
  /\ resp.op = "breakdown_update"
  /\ resp.code = OK
  /\ resp.arg.q = <<250000, 250000, 250000, 249990>>
  /\ bd[resp.key[1]].status = DRAFT
  /\ Total(bd[resp.key[1]]) = 999990
  /\ plans[resp.key[1]] = 1000000

\* C18: window resolution for (kind, year) at an instant: the active row for
\* (kind, year) is used if there is one, otherwise the active row for
\* (kind, null year); inactive rows count as absent; an always_open row
\* answers true; a row with start and end answers start <= instant < end;
\* with no row, or a row lacking start or end, the built-in default decides.
\* An active always_open row (BREAKDOWN, 2025) makes the breakdown window
\* open at every instant of 2025.
C18_WindowResolution ==
  [][ resp'.op = "window_status"
      => LET date == Timeline[now]
             Resolved(kind, default) ==
               LET active == {i \in windows : /\ WindowPool[i].active
                                              /\ WindowPool[i].window_type = kind}
                   ofYear == {i \in active : WindowPool[i].year = date[1]}
                   ofAll == {i \in active : WindowPool[i].year = 0}
                   used == IF ofYear # {} THEN ofYear ELSE ofAll
               IN IF used = {} THEN default
                  ELSE LET row == WindowPool[CHOOSE i \in used : TRUE]
                       IN IF row.always_open THEN TRUE
                          ELSE IF row.start # <<>> /\ row.end # <<>>
                               THEN /\ (row.start = date \/ Before(row.start, date))
                                    /\ Before(date, row.end)
                          ELSE default
             kinds == <<"PERFORMANCE_Q1", "PERFORMANCE_Q2", "PERFORMANCE_Q3",
                        "PERFORMANCE_Q4">>
         IN /\ resp'.arg.is_breakdown_window_open
                 = Resolved("BREAKDOWN", WithinAnnualBreakdownWindow({}, date))
            /\ \A q \in 1..4 :
                 resp'.arg.performance_windows[q]
                   = Resolved(kinds[q], WithinQuarterSubmissionWindow({}, date, q))
            /\ (1 \in windows /\ date[1] = 2025)
                 => resp'.arg.is_breakdown_window_open
    ]_vars

\* C18, witness: with the always_open row (BREAKDOWN, 2025) as the only row,
\* the breakdown window has just been reported open on 18 July 2025, outside
\* the default window.
C18_Witness ==
  /\ resp.op = "window_status"
  /\ windows = {1}
  /\ Timeline[now] = <<2025, 7, 18, 0>>
  /\ resp.arg.is_breakdown_window_open
  /\ ~WithinAnnualBreakdownWindow({}, Timeline[now])

\* C19: the window consulted at the submit of a breakdown is the BREAKDOWN
\* window of the year of the plan, and at the submit of a performance report
\* the window of its quarter and of the year of the plan: a usable override
\* row for year Y decides for the records whose plan year is Y, whatever the
\* calendar year of the instant of the request.
C19_WindowOfThePlanYear ==
  [][ LET date == Timeline[now]
          RowOf(kind, year) ==
            {i \in windows : /\ WindowPool[i].active
                             /\ WindowPool[i].window_type = kind
                             /\ WindowPool[i].year = year
                             /\ \/ WindowPool[i].always_open
                                \/ /\ WindowPool[i].start # <<>>
                                   /\ WindowPool[i].end # <<>>}
          Open(i) ==
            \/ WindowPool[i].always_open
            \/ /\ (WindowPool[i].start = date \/ Before(WindowPool[i].start, date))
               /\ Before(date, WindowPool[i].end)
          kinds == <<"PERFORMANCE_Q1", "PERFORMANCE_Q2", "PERFORMANCE_Q3",
                     "PERFORMANCE_Q4">>
      IN /\ \A p \in DOMAIN bd :
              ( /\ resp'.op = "breakdown_submit"
                /\ resp'.key = <<p>>
                /\ User(resp'.user).role = LEAD_EXECUTIVE_BODY
                /\ User(resp'.user).department \in {0, PlanFixture[p].department}
                /\ bd[p].status \in {DRAFT, REJECTED}
                /\ Total(bd[p]) = plans[p] )
              => \A i \in RowOf("BREAKDOWN", PlanFixture[p].year) :
                   (resp'.code = OK) <=> Open(i)
         /\ \A k \in DOMAIN pf :
              ( /\ resp'.op = "performance_submit"
                /\ resp'.key = k
                /\ User(resp'.user).role = LEAD_EXECUTIVE_BODY
                /\ User(resp'.user).department \in {0, PlanFixture[k[1]].department}
                /\ pf[k].status \in {DRAFT, REJECTED}
                /\ k[1] \in DOMAIN bd
                /\ bd[k[1]].status \in {APPROVED, VALIDATED, FINAL_APPROVED}
                /\ ~NeedsVariance(pf[k].value, QuarterTarget(bd[k[1]], k[2])) )
              => \A i \in RowOf(kinds[k[2]], PlanFixture[k[1]].year) :
                   (resp'.code = OK) <=> Open(i)
    ]_vars

\* C20: with no active override row of the quarter, the performance window
\* of quarter q is open at an instant iff the instant lies in the closed
\* interval from the start of the quarter to its end plus 10 days, for the
\* fiscal year of the instant (the year of the instant from July on, the
\* year before otherwise): Q1 8 Jul to 10 Oct, Q2 11 Oct to 8 Jan, Q3 9 Jan
\* to 8 Apr, Q4 9 Apr to 7 Jul.  Every instant from 9 April to 17 July is
\* open for quarter 4.
C20_DefaultQuarterWindows ==
  [][ resp'.op = "window_status"
      => LET date == Timeline[now]
             fy == IF date[2] >= 7 THEN date[1] ELSE date[1] - 1
             from == << <<fy, 7, 8, 0>>, <<fy, 10, 11, 0>>,
                        <<fy + 1, 1, 9, 0>>, <<fy + 1, 4, 9, 0>> >>
             until == << <<fy, 10, 20, 0>>, <<fy + 1, 1, 18, 0>>,
                         <<fy + 1, 4, 18, 0>>, <<fy + 1, 7, 17, 0>> >>
             kinds == <<"PERFORMANCE_Q1", "PERFORMANCE_Q2", "PERFORMANCE_Q3",
                        "PERFORMANCE_Q4">>
             NoRow(q) == \A i \in windows : ~(/\ WindowPool[i].active
                                              /\ WindowPool[i].window_type = kinds[q])
             Within(a, d, b) == (a = d \/ Before(a, d)) /\ (d = b \/ Before(d, b))
         IN /\ \A q \in 1..4 :
                 NoRow(q) => (resp'.arg.performance_windows[q]
                                <=> Within(from[q], date, until[q]))
            /\ ( /\ NoRow(4)
                 /\ Within(<<date[1], 4, 9, 0>>, date, <<date[1], 7, 17, 0>>) )
                 => resp'.arg.performance_windows[4]
    ]_vars

C28_AdvisorIsReadOnly ==
  [][ ( /\ resp'.user \in Users
        /\ User(resp'.user).role \in {ADVISOR, MINISTER_VIEW} )
      => /\ DOMAIN bd' = DOMAIN bd
         /\ DOMAIN pf' = DOMAIN pf
         /\ pf' = pf
         /\ \A p \in DOMAIN bd :
              /\ bd'[p].status = bd[p].status
              /\ <<bd'[p].q1, bd'[p].q2, bd'[p].q3, bd'[p].q4>>
                   = <<bd[p].q1, bd[p].q2, bd[p].q3, bd[p].q4>>
              /\ bd'[p].sent_to_strategic = bd[p].sent_to_strategic
              /\ bd'[p] # bd[p] => /\ resp'.op = "breakdown_advisor_review"
                                   /\ User(resp'.user).role = ADVISOR
    ]_vars

\* C29, as stated: advisor_review by an advisor with a non-empty comment c,
\* in any status, changes only review_comment, which becomes old + newline +
\* "Advisor: " + c when old is non-empty and "Advisor: " + c otherwise;
\* status, quarter values, stage fields and sent_to_strategic are unchanged.
\* With an empty comment or another role it is rejected.
C29_AsStated ==
  [][ ( /\ resp'.op = "breakdown_advisor_review"
        /\ resp'.code # NOT_FOUND )
      => LET p == resp'.key[1]
             c == resp'.arg
             old == bd[p].review_comment
         IN IF User(resp'.user).role = "ADVISOR" /\ c # <<>>
            THEN /\ resp'.code = OK
                 /\ bd' = [bd EXCEPT ![p].review_comment =
                             IF old # <<>> THEN old \o <<"\n", "Advisor: ">> \o c
                             ELSE <<"Advisor: ">> \o c]
                 /\ pf' = pf
                 /\ resp'.stamp = NoStamp
            ELSE /\ resp'.code # OK
                 /\ bd' = bd
                 /\ pf' = pf
    ]_vars

\* C29, corrected: advisor_review by an advisor with a comment that is not
\* blank (not made of whitespace only), in any status, changes only
\* review_comment: with c the comment without its leading and trailing
\* whitespace, it becomes old + newline + "Advisor: " + c when old is
\* non-empty and "Advisor: " + c otherwise, so the previous content stays as
\* a prefix; status, quarter values, stage fields and sent_to_strategic are
\* unchanged.  With a blank comment or another role it is rejected and
\* nothing changes.
C29_Annotation ==
  [][ ( /\ resp'.op = "breakdown_advisor_review"
        /\ resp'.code # NOT_FOUND )
      => LET p == resp'.key[1]
             comment == resp'.arg
             old == bd[p].review_comment
             Text == {i \in 1..Len(comment) : comment[i] \notin {" ", "\n"}}
             from == CHOOSE i \in Text : \A j \in Text : i <= j
             to == CHOOSE i \in Text : \A j \in Text : j <= i
             c == SubSeq(comment, from, to)
         IN IF User(resp'.user).role = "ADVISOR" /\ Text # {}
            THEN /\ resp'.code = OK
                 /\ bd' = [bd EXCEPT ![p].review_comment =
                             IF old # <<>> THEN old \o <<"\n", "Advisor: ">> \o c
                             ELSE <<"Advisor: ">> \o c]
                 /\ SubSeq(bd'[p].review_comment, 1, Len(old)) = old
                 /\ pf' = pf
                 /\ resp'.stamp = NoStamp
            ELSE /\ resp'.code # OK
                 /\ bd' = bd
                 /\ pf' = pf
    ]_vars

\* C29, witness: an advisor has just annotated a breakdown that carried the
\* comment of a review, with a comment padded with whitespace: the comment
\* of the review is followed by a newline and the prefixed, stripped note.
C29_Witness ==
  /\ resp.op = "breakdown_advisor_review"
  /\ resp.code = OK
  /\ resp.arg = <<" ", "x", " ">>
  /\ resp.key[1] \in DOMAIN bd
  /\ bd[resp.key[1]].review_comment = <<"x", "\n", "Advisor: ", "x">>

C23_NonAggregatableNeverCounts ==
  [][ ( /\ resp'.op \in {"plan_update", "breakdown_update", "performance_update"}
        /\ resp'.code = OK
        /\ ~indicators[PlanFixture[resp'.key[1]].indicator].is_aggregatable )
      => LET order == [i \in 1..Cardinality(GroupIds) |-> i]
         IN \A g \in DOMAIN groups, year \in AggregateYears :
              /\ GetAnnualTargetAggregate(g, year, order)'
                   = GetAnnualTargetAggregate(g, year, order)
              /\ GetQuarterlyBreakdownAggregate(g, year, order)'
                   = GetQuarterlyBreakdownAggregate(g, year, order)
              /\ \A quarter \in PerfQuarters :
                   GetPerformanceAggregate(g, year, quarter, order)'
                     = GetPerformanceAggregate(g, year, quarter, order)
    ]_vars

\* C23, witness: the performance value of the plan of indicator 1 has just
\* been changed while indicator 1 is non-aggregatable and linked to a child
\* group of the root.
C23_Witness ==
  /\ resp.op = "performance_update"
  /\ resp.code = OK
  /\ resp.key = <<1, 4>>
  /\ pf[<<1, 4>>].value = 50000
  /\ ~indicators[1].is_aggregatable
  /\ indicators[1].groups = {2}
  /\ groups[2].parent = 1

\* C24: performanceAggregate(g, year, quarter) includes every performance
\* row of the aggregatable indicators of the subtree whatever its status: a
\* status transition (submit, approve, validate, final_approve, reject) of a
\* performance report leaves every performanceAggregate unchanged, and a
\* DRAFT or REJECTED row contributes its value.
C24_PerformanceAggregateIgnoresStatus ==
  [][ /\ ( /\ resp'.op \in {"performance_submit", "performance_approve",
                            "performance_validate", "performance_final_approve",
                            "performance_reject"}
           /\ resp'.code = OK )
         => \A g \in DOMAIN groups, year \in AggregateYears, order \in GroupOrders :
              GetPerformanceAggregate(g, year, 4, order)'
                = GetPerformanceAggregate(g, year, 4, order)
      /\ ( /\ resp'.op = "group_retrieve"
           /\ resp'.code = OK )
         => LET g == resp'.key[1]
                Up(h) == IF h = 0 THEN 0 ELSE groups[h].parent
                Subtree == {h \in DOMAIN groups : g \in {h, Up(h), Up(Up(h))}}
                Links(i) == IF indicators[i].is_aggregatable
                            THEN Cardinality(indicators[i].groups \cap Subtree)
                            ELSE 0
                V(p) == IF /\ <<p, resp'.arg.quarter>> \in DOMAIN pf
                           /\ PlanFixture[p].year = resp'.arg.year
                        THEN Links(PlanFixture[p].indicator)
                               * pf[<<p, resp'.arg.quarter>>].value
                        ELSE 0
            IN resp'.arg.performance_aggregate = V(1) + V(2) + V(3) + V(4)
    ]_vars

\* C24, witness: the aggregate of the root has just been returned while the
\* report of plan 1 is REJECTED and the report of plan 2 is DRAFT, both of
\* aggregatable indicators linked once below the root: both values are in
\* the sum.
C24_Witness ==
  /\ resp.op = "group_retrieve"
  /\ resp.code = OK
  /\ resp.key = <<1>>
  /\ resp.arg.year = 2025
  /\ pf[<<1, 4>>].status = REJECTED
  /\ pf[<<2, 4>>].status = DRAFT
  /\ indicators[1].is_aggregatable /\ indicators[1].groups = {2}
  /\ indicators[2].is_aggregatable /\ indicators[2].groups = {3}
  /\ resp.arg.performance_aggregate
       = pf[<<1, 4>>].value + pf[<<2, 4>>].value + pf[<<4, 4>>].value

\* C25: after any sequence of group create, update and delete operations
\* the parent references of the indicator groups form a forest: no group is
\* its own parent or an ancestor of itself.
C25_GroupsFormAForest ==
  LET Up(h) == IF h \in DOMAIN groups THEN groups[h].parent ELSE 0
  IN \A g \in DOMAIN groups : g \notin {Up(g), Up(Up(g)), Up(Up(Up(g)))}

\* C26: after any sequence of group create, full update and partial update
\* operations through the write path, every indicator group has exactly one
\* scope anchor: a department or a sector, never both and never neither.
C26_ExactlyOneScopeAnchor ==
  \A g \in DOMAIN groups : (groups[g].department # 0) # (groups[g].sector # 0)

\* C27: the deletion of an indicator group by a permitted principal that can
\* address it is refused with an error, and the group and all links remain,
\* whenever at least one indicator, aggregatable or not, is linked to the
\* group; it is carried out only when the group has no linked indicator.
C27_DeleteGuard ==
  [][ ( /\ resp'.op = "group_destroy"
        /\ resp'.code \notin {FORBIDDEN, NOT_FOUND} )
      => LET g == resp'.key[1]
         IN IF \E i \in DOMAIN indicators : g \in indicators[i].groups
            THEN /\ resp'.code # OK
                 /\ groups' = groups
                 /\ indicators' = indicators
            ELSE /\ resp'.code = OK
                 /\ g \notin DOMAIN groups'
    ]_vars

\* C27, witness: the deletion of a group has just been refused while its
\* only linked indicator is non-aggregatable.
C27_Witness ==
  /\ resp.op = "group_destroy"
  /\ resp.code = "has_indicators"
  /\ resp.key[1] \in DOMAIN groups
  /\ resp.key[1] \in indicators[1].groups
  /\ ~indicators[1].is_aggregatable
  /\ \A i \in DOMAIN indicators : i # 1 => indicators[i].groups = {}

\* C30: there is no compare-and-swap on status: when two reviewer actions
\* on one record both read it before either writes (approve and reject of
\* one SUBMITTED breakdown, say), both report success, and the stored status
\* and review fields are those of the later write: the later save succeeds
\* whenever the record it read allows the action, whatever was written in
\* between, and leaves the row as it read it with its own changes.
C30_LastWriteWins ==
  [][ ( /\ inflight.op # "none"
        /\ inflight.code = ""
        /\ inflight'.code # "" )
      => LET p == inflight.key[1]
             read == inflight.obj
             role == User(inflight.user).role
             Source == IF inflight.op = "breakdown_approve" THEN {"SUBMITTED"}
                       ELSE IF inflight.op = "breakdown_validate" THEN {"APPROVED"}
                       ELSE IF inflight.op = "breakdown_final_approve" THEN {"VALIDATED"}
                       ELSE {"SUBMITTED", "APPROVED", "VALIDATED"}
             Target == IF inflight.op = "breakdown_approve" THEN "APPROVED"
                       ELSE IF inflight.op = "breakdown_validate" THEN "VALIDATED"
                       ELSE IF inflight.op = "breakdown_final_approve"
                            THEN "FINAL_APPROVED"
                       ELSE "REJECTED"
             Actor == IF inflight.op = "breakdown_approve" THEN {"STATE_MINISTER"}
                      ELSE IF inflight.op = "breakdown_validate" THEN {"STRATEGIC_STAFF"}
                      ELSE IF inflight.op = "breakdown_final_approve" THEN {"EXECUTIVE"}
                      ELSE {"STATE_MINISTER", "STRATEGIC_STAFF", "EXECUTIVE"}
             NoteMissing == /\ inflight.op = "breakdown_reject"
                            /\ role = "STRATEGIC_STAFF"
                            /\ \A i \in DOMAIN inflight.comment :
                                 inflight.comment[i] \in {" ", "\n"}
         IN IF role \in Actor /\ read.status \in Source /\ ~NoteMissing
            THEN /\ inflight'.code = OK
                 /\ bd'[p].status = Target
                 /\ \A f \in {"q1", "q2", "q3", "q4", "sent_to_strategic"} :
                      bd'[p][f] = read[f]
                 /\ inflight.op \in {"breakdown_approve", "breakdown_reject"}
                      => bd'[p].review_comment = inflight.comment
                 /\ inflight.op \notin {"breakdown_approve", "breakdown_reject"}
                      => bd'[p].review_comment = read.review_comment
            ELSE /\ inflight'.code # OK
                 /\ bd' = bd
    ]_vars

\* C30, witness: a reject read the SUBMITTED breakdown, an approve of the
\* same breakdown was then served with success (its response is still
\* pending), and the reject has saved with success: the stored status is
\* REJECTED, the status of the later write.
C30_Witness ==
  /\ inflight.op = "breakdown_reject"
  /\ inflight.code = OK
  /\ inflight.obj.status = SUBMITTED
  /\ resp.op = "breakdown_approve"
  /\ resp.code = OK
  /\ resp.key = inflight.key
  /\ bd[inflight.key[1]].status = REJECTED

\* C31, as stated: for every group g of a forest, level(g) is the number of
\* ancestors of g (0 for a root, level(parent) + 1 otherwise), and
\* hierarchyPath(g) lists the names of the ancestor chain of g from the root
\* down to g, so it has exactly level(g) + 1 segments between separators and
\* ends with the name of g as its last segment.
C31_AsStated ==
  (resp.op = "group_fields")
    => LET g == resp.key[1]
           path == resp.arg.hierarchy_path
           seps == {i \in DOMAIN path : path[i] = SEP}
           last == IF seps = {} THEN path
                   ELSE SubSeq(path, 1 + CHOOSE i \in seps : \A j \in seps : j <= i,
                               Len(path))
       IN /\ Cardinality(seps) + 1 = resp.arg.level + 1
          /\ last = groups[g].name

\* C31: for every group g of a forest, level(g) is 0 for a root and
\* level(parent) + 1 otherwise, and hierarchyPath(g) is the name of g for a
\* root and hierarchyPath(parent), the separator and the name of g
\* otherwise; when no name of the chain holds the separator, the path has
\* exactly level(g) + 1 segments.
C31_LevelAndPath ==
  (resp.op = "group_fields")
    => LET g == resp.key[1]
           parent == groups[g].parent
           path == resp.arg.hierarchy_path
           name == groups[g].name
           seps == {i \in DOMAIN path : path[i] = SEP}
           chain == {h \in GroupIds : \E k \in 0..resp.arg.level :
                       \E c \in [0..k -> GroupIds] :
                         /\ c[0] = g
                         /\ c[k] = h
                         /\ \A j \in 1..k : c[j] = groups[c[j - 1]].parent}
       IN /\ resp.arg.level = Cardinality(chain) - 1
          /\ parent = 0 => resp.arg.level = 0 /\ path = name
          /\ parent # 0 =>
               /\ resp.arg.level = Level(groups, parent) + 1
               /\ path = HierarchyPath(groups, parent) \o <<SEP>> \o name
          /\ Len(path) >= Len(name)
          /\ SubSeq(path, Len(path) - Len(name) + 1, Len(path)) = name
          /\ (\A h \in chain : \A i \in DOMAIN groups[h].name :
                groups[h].name[i] # SEP)
               => Cardinality(seps) + 1 = resp.arg.level + 1

\* C31, witness: the fields of a group with a parent and a grandparent have
\* been computed: level 2 and a path of three names.
C31_Witness ==
  /\ resp.op = "group_fields"
  /\ resp.arg.level = 2
  /\ \A g \in GroupIds : groups[g].name \in {<<"a">>, <<"b">>}
  /\ Len(resp.arg.hierarchy_path) = 5

\* C32: for every group g of a forest, inheritedUnit(g) is the unit of g
\* when it is non-empty, otherwise the unit of the nearest ancestor that has
\* a non-empty unit, otherwise the empty string; an indicator with an empty
\* unit takes the inherited unit of its group (of its group of least id
\* when it has several, the empty string when it has none).
C32_InheritedUnit ==
  LET Up(g, k) == CHOOSE c \in [0..k -> {0} \cup GroupIds] :
                    /\ c[0] = g
                    /\ \A j \in 1..k :
                         c[j] = IF c[j - 1] = 0 THEN 0 ELSE groups[c[j - 1]].parent
      Anc(g, k) == Up(g, k)[k]
      WithUnit(g) == {k \in 0..Cardinality(GroupIds) :
                        Anc(g, k) # 0 /\ groups[Anc(g, k)].unit # <<>>}
      Inherited(g) == IF WithUnit(g) = {} THEN <<>>
                      ELSE groups[Anc(g, CHOOSE k \in WithUnit(g) :
                                           \A j \in WithUnit(g) : k <= j)].unit
  IN /\ (resp.op = "group_fields")
          => resp.arg.inherited_unit = Inherited(resp.key[1])
     /\ (resp.op = "indicator_fields")
          => LET ind == indicators[resp.key[1]]
             IN resp.arg.effective_unit =
                  IF ind.unit # <<>> THEN ind.unit
                  ELSE IF ind.groups = {} THEN <<>>
                  ELSE Inherited(CHOOSE g \in ind.groups : \A h \in ind.groups : g <= h)

\* C32, witness: an indicator with no unit of its own, in a group with no
\* unit whose parent has none either, has been given the unit of the
\* grandparent of its group.
C32_Witness ==
  /\ resp.op = "indicator_fields"
  /\ indicators[resp.key[1]].unit = <<>>
  /\ indicators[resp.key[1]].groups = {3}
  /\ groups[3].unit = <<>>
  /\ groups[3].parent # 0
  /\ groups[groups[3].parent].unit = <<>>
  /\ groups[groups[3].parent].parent # 0
  /\ resp.arg.effective_unit = <<"kg">>

\* C33: the mode of submit_to_strategic selects the categories handled:
\* "plans" checks and flags only breakdowns and never touches a performance
\* flag, "performances" checks and flags only performances, and a missing
\* mode or any other value is treated as both together: the request is
\* refused when a record of either category is pending, and flags the
\* listed approved records of both categories otherwise.
C33_ModeSelectsCategories ==
  [][ (resp'.op = "submit_to_strategic" /\ User(resp'.user).role = STATE_MINISTER)
      => LET u == resp'.user
             mode == resp'.arg.mode
             bids == resp'.arg.breakdown_ids
             pids == resp'.arg.performance_ids
             as == IF mode \in {"plans", "performances"} THEN mode ELSE "both"
         IN /\ as = "plans" => pf' = pf
            /\ as = "performances" => bd' = bd
            /\ resp'.code = OK <=> ~Blocked(u, as, TouchedYears(as, bids, pids))
            /\ resp'.code = OK =>
                 /\ as # "performances" =>
                      \A p \in DOMAIN bd :
                        p \in bids /\ InMinisterScope(u, p) /\ bd[p].status = APPROVED
                          => bd'[p].sent_to_strategic
                 /\ as # "plans" =>
                      \A k \in DOMAIN pf :
                        k \in pids /\ InMinisterScope(u, k[1]) /\ pf[k].status = APPROVED
                          => pf'[k].sent_to_strategic
    ]_vars

\* C34: every breakdown whose status is SUBMITTED, APPROVED, VALIDATED or
\* FINAL_APPROVED has q1 + q2 + q3 + q4 equal to the target of its plan (to
\* two decimal places, as submit compares them), and no operation after a
\* successful submit (breakdown update, annual-plan update) leaves a
\* submitted-or-later breakdown out of balance: a step from a state where
\* such a breakdown is balanced leaves it balanced or takes it back out of
\* the submitted-or-later statuses.
C34_SubmittedStaysBalanced ==
  [][ \A p \in DOMAIN bd \cap DOMAIN bd' :
        ( /\ bd[p].status \in {SUBMITTED, APPROVED, VALIDATED, FINAL_APPROVED}
          /\ Quantize(Total(bd[p])) = Quantize(plans[p])
          /\ bd'[p].status \in {SUBMITTED, APPROVED, VALIDATED, FINAL_APPROVED} )
        => Quantize(Total(bd'[p])) = Quantize(plans'[p])
    ]_vars

\* C35: a breakdown or performance with sent_to_strategic = true has status
\* APPROVED, VALIDATED or FINAL_APPROVED, so a record that is rejected after
\* the hand-off does not stay visible to the second-tier reviewer without a
\* new hand-off: a successful reject leaves the record it rejects with
\* sent_to_strategic = false.
C35_RejectClearsHandOff ==
  [][ /\ (resp'.op = "breakdown_reject" /\ resp'.code = OK)
           => ~bd'[resp'.key[1]].sent_to_strategic
      /\ (resp'.op = "performance_reject" /\ resp'.code = OK)
           => ~pf'[<<resp'.key[1], resp'.key[2]>>].sent_to_strategic
    ]_vars

\* C36: a performance whose status is SUBMITTED, APPROVED, VALIDATED or
\* FINAL_APPROVED has a parent breakdown whose status is APPROVED, VALIDATED
\* or FINAL_APPROVED, and the gate checked at the submit of the performance
\* keeps holding after later transitions of the breakdown: a step from a
\* state where the gate holds for a submitted-or-later performance that it
\* leaves submitted-or-later leaves the breakdown approved-or-later.
C36_GateKeepsHolding ==
  [][ \A k \in DOMAIN pf \cap DOMAIN pf' :
        ( /\ pf[k].status \in {SUBMITTED, APPROVED, VALIDATED, FINAL_APPROVED}
          /\ k[1] \in DOMAIN bd
          /\ bd[k[1]].status \in {APPROVED, VALIDATED, FINAL_APPROVED}
          /\ pf'[k].status \in {SUBMITTED, APPROVED, VALIDATED, FINAL_APPROVED} )
        => /\ k[1] \in DOMAIN bd'
           /\ bd'[k[1]].status \in {APPROVED, VALIDATED, FINAL_APPROVED}
    ]_vars

\* C37: once submit_to_strategic has set sent_to_strategic on a record, no
\* later or concurrently running operation on that record (submit, approve,
\* validate, final_approve, reject, update, advisor_review), in any
\* interleaving of its read and its write with the hand-off, sets the flag
\* back to false.
C37_FlagIsNeverCleared ==
  [][ \A p \in DOMAIN bd \cap DOMAIN bd' :
        bd[p].sent_to_strategic => bd'[p].sent_to_strategic ]_vars

\* C38: an advisor annotation appended to review_comment by advisor_review
\* is still contained in the review_comment of the record after any later
\* approve or reject on the record, with or without a reviewer comment.
C38_AnnotationSurvivesReview ==
  [][ ( /\ resp'.op \in {"breakdown_approve", "breakdown_reject"}
        /\ resp'.code = OK )
      => LET p == resp'.key[1]
             Notes(text) == {SubSeq(text, i, i + 1) :
                               i \in {j \in 1..(Len(text) - 1) : text[j] = "Advisor: "}}
         IN Notes(bd[p].review_comment) \subseteq Notes(bd'[p].review_comment)
    ]_vars

\* C39: an aggregatable indicator linked to more than one group of the same
\* subtree (to a group and to one of its descendants, say) contributes its
\* plan target, its quarter values and its performance values exactly once,
\* not once for each membership, to the aggregates of their common
\* ancestor.
C39_CountedOnce ==
  [][ ( /\ resp'.op = "group_retrieve"
        /\ resp'.code = OK )
      => LET g == resp'.key[1]
             year == resp'.arg.year
             quarter == resp'.arg.quarter
             Up(h) == IF h = 0 THEN 0 ELSE groups[h].parent
             Subtree == {h \in DOMAIN groups : g \in {h, Up(h), Up(Up(h))}}
             Counted(i) == /\ indicators[i].is_aggregatable
                           /\ indicators[i].groups \cap Subtree # {}
             Plans == {p \in DOMAIN plans :
                         Counted(PlanFixture[p].indicator) /\ PlanFixture[p].year = year}
             Target(p) == IF p \in Plans THEN plans[p] ELSE 0
             Q(p, n) == IF p \in Plans /\ p \in DOMAIN bd
                        THEN QuarterTarget(bd[p], n) ELSE 0
             Value(p) == IF p \in Plans /\ <<p, quarter>> \in DOMAIN pf
                         THEN pf[<<p, quarter>>].value ELSE 0
             QSum(n) == Q(1, n) + Q(2, n) + Q(3, n) + Q(4, n)
         IN /\ resp'.arg.annual_target_aggregate =
                 Target(1) + Target(2) + Target(3) + Target(4)
            /\ resp'.arg.quarterly_breakdown_aggregate =
                 [q1 |-> QSum(1), q2 |-> QSum(2), q3 |-> QSum(3), q4 |-> QSum(4)]
            /\ resp'.arg.performance_aggregate =
                 Value(1) + Value(2) + Value(3) + Value(4)
    ]_vars

\* C40: a group delete operation never removes a group that has a linked
\* indicator: this covers the group named in the request and every
\* descendant group removed with it by the cascade on the parent reference.
C40_NoLinkedGroupIsRemoved ==
  [][ (resp'.op = "group_destroy")
      => \A h \in DOMAIN groups \ DOMAIN groups' :
           \A i \in DOMAIN indicators : h \notin indicators[i].groups
    ]_vars

====
